---------------------------- MODULE Spec2Model ----------------------------
(***************************************************************************)
(* Rover control plane: the command / safety chain.                        *)
(*                                                                         *)
(*   user input -> InputManager -> StateManager -> SafetyController        *)
(*   SensorArray -> SafetyController                                       *)
(*   SensorArray -> HardwareInterface -> InputManager -> StateManager      *)
(*   Behaviour -> SafetyController -> HardwareInterface                    *)
(*                                                                         *)
(* Every module is one task running a select loop.  A handler takes one    *)
(* message and then performs its channel sends one after the other; each   *)
(* send is a suspension point, so the sends still to be done are kept in   *)
(* out[m] and the module takes no other message until out[m] is empty.     *)
(*                                                                         *)
(* Units: distances in centimetres, battery level in percent (the f32      *)
(* thresholds 0.1, 0.5 and 0.3 become 10, 50 and 30).  SystemTime::now()   *)
(* is a logical clock.                                                     *)
(*                                                                         *)
(* The sensor driver, the hardware status generator and the scripted       *)
(* command sources are external collaborators: they are modelled by the    *)
(* values their message types admit, not by the simulator's script.        *)
(* The planning branch upstream of Behaviour is modelled by the messages   *)
(* it can put on Behaviour's three inbound queues.                         *)
(***************************************************************************)
EXTENDS Integers, Sequences, FiniteSets, TLC

\* ------------------------------------------------------------------ bounds
MaxEvents   == 3      \* inputs from outside (commands, frames, status ticks, paths) in a run
MaxInject   == 3      \* messages injected in a harness
MaxMissions == 2      \* inputs from outside in a run of the mission path
ChanCap     == 2      \* queue capacity used for mpsc::channel(32)
MaxStatus   == 52     \* status ticks in a run of the status path
MaxFrames   == 6      \* sensor frames in a run with timers
MaxModes    == 4      \* modes and commands put on the inputs of a run of the mode harness
MaxMotorCmds == 5     \* motor commands a driver sends in a run of the status path
MaxGoals    == 6      \* Goals of the missions in a run of the planning cycles
MaxRequests == 4      \* requests a client sends to the calibration store
MaxRingCommands  == 6 \* user commands in a run of the emergency-stop ring
MaxRingBehaviors == 3 \* commands of Behaviour in a run of the emergency-stop ring
MaxRingStatus    == 3 \* status reports in a run of the emergency-stop ring

\* ------------------------------------------------------------- thresholds
CriticalBattery  == 10    \* battery_level < 0.1
FrontObstacle    == 50    \* front_distance < 0.5
CloseObstacle    == 30    \* distance < 0.3
StopPriority     == 10
PathPriority     == 5
StancePriority   == 7
PathSpeed        == 50    \* speed: 0.5

\* ------------------------------------------------------------ data model
RobotStates ==
    {"Idle", "ManualControl", "ExecutingMission", "Paused", "EmergencyStop", "Error"}

SystemCommands == {"Pause", "Resume", "EmergencyStop", "Calibrate"}

UserCommands ==
    {[type |-> "ManualControl", cmd |-> "MoveForward"],
     [type |-> "MissionCommand", cmd |-> "ReturnHome"]}
    \cup {[type |-> "SystemCommand", cmd |-> c] : c \in SystemCommands}

HealthStatuses == {"Healthy", "Warning", "Critical"}

Identity == <<100, 0, 0, 0>>

SensorFrames ==
    {[distance_sensors |-> <<40, 20>>,   battery_level |-> 85, orientation |-> <<90, 30, 0, 0>>],
     [distance_sensors |-> <<250, 300>>, battery_level |-> 5,  orientation |-> Identity]}

Origin == <<0, 0, 0>>

Paths ==
    {[waypoints |-> <<Origin, <<1, 1, 0>>, <<2, 2, 0>>, <<3, 3, 0>>, <<4, 4, 0>>>>]}

StanceConfigs == {[stance_type |-> "LowProfile", stability |-> 80]}

\* Stance::new: StanceType::Normal, stability 1.0
NormalStance == [stance_type |-> "Normal", stability |-> 100]

\* drop(dummy_motor_cmd_tx): the only sender of OutputManager's motor input
DroppedSenders == {"dummy_motor_cmd"}

MotorCommands == {[left_speed |-> 50, right_speed |-> 50]}

\* Latitudes and longitudes (f64) are whole numbers of 1e-7 degrees; positions
\* (f32) are in the same unit.
RECURSIVE ulp(_, _)
ulp(a, s) == IF a \div s < 16777216 THEN s ELSE ulp(a, 2 * s)

\* `x as f32`: the nearest value with a 24-bit significand, ties to even
as_f32(x) ==
    LET a == IF x < 0 THEN -x ELSE x
        s == ulp(a, 1)
        q == a \div s
        r == a % s
        n == IF 2 * r < s \/ (2 * r = s /\ q % 2 = 0) THEN q * s ELSE (q + 1) * s
    IN IF x < 0 THEN -n ELSE n

Waypoint(lat, lon) == [lat |-> lat, lon |-> lon, tolerance |-> 200]

WP1 == Waypoint(377750000, -1224195000)
WP2 == Waypoint(16, 64)

\* ReturnHome: Waypoint { lat: 37.7749, lon: -122.4194, tolerance: 1.0 }
Home == [lat |-> 377749000, lon |-> -1224194000, tolerance |-> 100]

MissionCommands ==
    {[type |-> "MissionCommand", cmd |-> "GoToWaypoint", lat |-> WP1.lat, lon |-> WP1.lon],
     [type |-> "MissionCommand", cmd |-> "FollowPath", waypoints |-> <<WP2, WP1>>],
     [type |-> "MissionCommand", cmd |-> "Patrol", waypoints |-> <<WP1, WP2>>, loops |-> 2],
     [type |-> "MissionCommand", cmd |-> "Patrol", waypoints |-> <<>>, loops |-> 1],
     [type |-> "MissionCommand", cmd |-> "ReturnHome"]}

StanceQuery == [type |-> "Query"]
StanceAdjust(new_stance) == [type |-> "Adjust", stance |-> new_stance]

Modules ==
    {"SensorArray", "HardwareInterface", "InputManager", "StateManager",
     "Behaviour", "SafetyController", "OutputManager",
     "TaskMissionManager", "GoalPlanning", "ObstacleAvoidance", "Stance",
     "UserFeedback", "CommunicationModule", "UserInstructions",
     "ModelCalibrationStorage"}

Channels ==
    {"user_command", "sensor_data_hw", "sensor_data_im", "sensor_data_safety",
     "hw_status", "motor_command_hw",
     "im_env", "im_state_sensor", "im_state_cmd", "im_task",
     "state", "state_safety", "state_task",
     "env_state", "goal",
     "stance_obstacle_req", "stance_obstacle_resp",
     "stance_goal_req", "stance_goal_resp", "stance_behavior",
     "goal_obstacle_req", "obstacle_goal_resp",
     "behavior_path_goal", "behavior_path_obstacle",
     "behavior_safety", "behavior_hw",
     "dummy_motor_cmd", "status_feedback", "status_comm", "log",
     "user_feedback", "comm_user", "calib_req", "calib_resp"}

\* The tasks spawned by initialize_and_run.
Tasks ==
    Modules \cup {"Logger", "DirectUserInput", "UserInstructions",
                  "EnvironmentUnderstanding", "ModelCalibrationStorage",
                  "UserFeedback", "CommunicationModule"}

\* Time is counted in units of 500 ms.  The sleep in the select! of a task:
\* 500 ms in SensorArray, 2 s in HardwareInterface.
SleepOf(t) == IF t = "SensorArray" THEN 1 ELSE 4

\* Queues whose receiving module is outside the specification of the wired
\* system (EnvironmentUnderstanding: im_env; TaskMissionManager: im_task,
\* state_task).  Their receivers take every message; the queue content is not
\* represented.
Unmodelled == {"im_env", "im_task", "state_task"}

create_log(module, level, message) ==
    [module |-> module, level |-> level, message |-> message]

NoLog == <<>>

\* ModelCalibrationStorage::new: the record the store starts with (lengths in
\* cm, speeds in cm/s and 0.01 rad/s)
default_calibration ==
    [wheel_diameter |-> 15, wheel_base |-> 30, max_speed |-> 200,
     max_angular_velocity |-> 150,
     sensor_offsets |-> <<<<20, 0, 10>>, <<0, 15, 10>>, <<0, -15, 10>>, <<-20, 0, 10>>>>]

VARIABLES
    chan,               \* queue contents, per channel
    closed,             \* channels whose receiver has been dropped
    sinks,              \* channels whose receiver takes every message at once
    tap,                \* channels whose traffic is recorded
    sent,               \* per tapped channel: the messages sent on it, in order
    no_sender,          \* channels all of whose senders have been dropped
    command_count,      \* OutputManager: command_count
    motor_received,     \* HardwareInterface: motor commands received, in order
    mission_counter,    \* TaskMissionManager
    current_mission,    \* TaskMissionManager: <<>> is None, <<m>> is Some(m)
    current_stance,     \* Stance
    out,                \* per module: sends the running handler still has to do
    cmd_idx,            \* user commands issued so far
    sensor_counter,     \* SensorArray: counter
    hw_counter,         \* HardwareInterface: counter
    events,             \* inputs from outside so far
    clock,              \* SystemTime::now()
    current_state,      \* StateManager
    pose_orientation,   \* StateManager: pose.orientation
    announced,          \* StateManager: announcements made, with their command
    state_sends,        \* StateManager: sends completed, in order
    emergency_stop,     \* SafetyController
    latest_sensor_data, \* SafetyController: <<>> is None, <<f>> is Some(f)
    validated,          \* SafetyController: commands handled, in order, with the verdict
    states_received,    \* SafetyController: modes received, in order
    hw_received,        \* HardwareInterface: behavior commands received, in order
    log_tx,             \* log records emitted by the step just taken
    pc,                 \* per task: "select" in its loop, "done" after run returned
    shutdown_rx,        \* per task: broadcast values its subscription still holds
    logger,             \* Logger: the fields of self
    io,                 \* Logger: its operations on the sinks and on stderr, in order
    sleep_left,         \* per timed task: what is left of the sleep of its select!
    silence,            \* time since the last HardwareStatus was produced
    mission_sent,       \* UserInstructions: mission_sent
    motor_cmds,         \* HardwareInterface: the MotorCommands it built, in order
    calibration_data,   \* ModelCalibrationStorage: the record behind the RwLock
    calib_lock          \* the RwLock: "free", "read" or "write"

vars == <<chan, closed, sinks, tap, sent, no_sender, command_count, motor_received,
          mission_counter, current_mission, current_stance, out, state_sends, cmd_idx, sensor_counter, hw_counter, events, clock, current_state, pose_orientation, announced,
          emergency_stop, latest_sensor_data, validated, states_received,
          hw_received, log_tx, pc, shutdown_rx, logger, io, sleep_left, silence, mission_sent, motor_cmds,
          calibration_data, calib_lock>>

\* the variables of the tasks' lifecycle, of the Logger and of the timers
lifecycle == <<pc, shutdown_rx>>
logging == <<logger, io>>
timing == <<sleep_left, silence, mission_sent>>
calibration == <<calibration_data, calib_lock>>

\* ------------------------------------------------------------ channel ops
\* Task m is in its loop, at the select!, no handler running.
AtSelect(m) == pc[m] = "select" /\ out[m] = <<>>

\* The sleep of m's select! has ended (a sleep that is not represented may
\* have ended at any moment).
Slept(m) == m \in DOMAIN sleep_left => sleep_left[m] = 0

\* The timers after m went round its loop once more: select! creates the
\* sleep anew, whichever branch was taken.
Loop(m) ==
    IF m \in DOMAIN sleep_left
      THEN [sleep_left EXCEPT ![m] = SleepOf(m)]
      ELSE sleep_left

Pending(ch, msg, ok, err) == [ch |-> ch, msg |-> msg, ok |-> ok, err |-> err]

\* recv(): take the head of ch
Recv(ch) == [chan EXCEPT ![ch] = Tail(@)]

\* tx.send(msg).await completes at once when the queue has room, fails at once
\* when the receiver is gone, and suspends the task when the queue is full.
CanSend(queues, e) ==
    \/ e.ch \in closed
    \/ e.ch \in sinks
    \/ Len(queues[e.ch]) < ChanCap

\* the record of the traffic after msg was sent on ch
Tapped(record, ch, msg) ==
    IF ch \in tap THEN [record EXCEPT ![ch] = Append(@, msg)] ELSE record

\* The sends of a handler, in program order, as far as they complete; st.rest
\* is what remains when a send suspends.  ok / err are the records logged
\* after a send that succeeded / failed.
RECURSIVE Deliver(_, _)
Deliver(st, sends) ==
    IF sends = <<>> THEN st
    ELSE LET e == Head(sends) IN
         IF e.ch \in closed
           THEN Deliver([st EXCEPT !.log = @ \o e.err], Tail(sends))
         ELSE IF e.ch \in sinks
           THEN Deliver([st EXCEPT !.sent = Tapped(@, e.ch, e.msg),
                                   !.log = @ \o e.ok], Tail(sends))
         ELSE IF Len(st.chan[e.ch]) < ChanCap
           THEN Deliver([st EXCEPT !.chan[e.ch] = Append(@, e.msg),
                                   !.sent = Tapped(@, e.ch, e.msg),
                                   !.log = @ \o e.ok], Tail(sends))
         ELSE [st EXCEPT !.rest = sends]

\* Module m, with the queues as `queues`, logs `logs` and then does `sends`.
\* (r is the outcome of the sends s)
Emit(m, queues, logs, sends) ==
    \E s \in {sends} :
      \E r \in {Deliver([chan |-> queues, sent |-> sent, rest |-> <<>>, log |-> logs], s)} :
        /\ chan' = r.chan
        /\ sent' = r.sent
        /\ out' = [out EXCEPT ![m] = r.rest]
        /\ log_tx' = r.log

\* the sends of `sends` that are no longer in `rest`
Completed(sends, rest) ==
    [i \in 1..(Len(sends) - Len(rest)) |-> [ch |-> sends[i].ch, msg |-> sends[i].msg]]

\* The state after construction, for a given wiring: the receivers dropped,
\* the receivers left out, the channels recorded and the senders dropped.
InitData(dropped_receivers, left_out, recorded, dropped_senders) ==
    /\ chan = [c \in Channels |-> <<>>]
    /\ closed = dropped_receivers
    /\ sinks = left_out
    /\ tap = recorded
    /\ sent = [c \in Channels |-> <<>>]
    /\ no_sender = dropped_senders
    /\ command_count = 0
    /\ motor_received = <<>>
    /\ mission_counter = 0
    /\ current_mission = <<>>
    /\ current_stance = NormalStance
    /\ out = [m \in Modules |-> <<>>]
    /\ cmd_idx = 0
    /\ sensor_counter = 0
    /\ hw_counter = 0
    /\ events = 0
    /\ clock = 0
    /\ current_state = "Idle"
    /\ pose_orientation = Identity
    /\ announced = <<>>
    /\ state_sends = <<>>
    /\ emergency_stop = FALSE
    /\ latest_sensor_data = <<>>
    /\ validated = <<>>
    /\ states_received = <<>>
    /\ hw_received = <<>>
    /\ motor_cmds = <<>>
    /\ calibration_data = default_calibration
    /\ calib_lock = "free"
    /\ log_tx = NoLog

\* Every task is spawned with a fresh subscription and runs its loop.
InitTasks ==
    /\ pc = [t \in Tasks |-> "select"]
    /\ shutdown_rx = [t \in Tasks |-> 0]

\* Logger::new and the start of Logger::run: the file was created or not
\* (mcap_writer), the live stream was started or not (foxglove_context).
InitLogger(writer, context) ==
    /\ logger = [min_level |-> "Debug",
                 mcap_writer |-> writer, foxglove_context |-> context,
                 module_channels |-> {}, ws_channels |-> {}, message_count |-> 0]
    /\ io = <<>>

\* The sleeps of the tasks in `timed` are armed; the sleeps of the other tasks
\* are not represented (they may end at any moment).
InitTimers(timed) ==
    /\ sleep_left = [t \in timed |-> SleepOf(t)]
    /\ silence = 0
    /\ mission_sent = FALSE

InitWith(dropped_receivers, left_out, recorded, dropped_senders) ==
    /\ InitData(dropped_receivers, left_out, recorded, dropped_senders)
    /\ InitTasks
    /\ InitLogger(TRUE, TRUE)
    /\ InitTimers({})

\* initialize_and_run: _state_rx is dropped on return, dummy_motor_cmd_tx
\* before OutputManager is spawned.
Init == InitWith({"state"}, Unmodelled, {}, DroppedSenders)

\* A suspended send of module m finds room: the handler goes on.
Send(m) ==
    /\ out[m] # <<>>
    /\ CanSend(chan, Head(out[m]))
    /\ Emit(m, chan, NoLog, out[m])
    /\ state_sends' = IF m = "StateManager"
                        THEN state_sends \o Completed(out[m], out'[m])
                        ELSE state_sends
    /\ UNCHANGED <<lifecycle, logging, motor_cmds, calibration, closed, sinks, tap, no_sender, command_count, motor_received,
                   mission_counter, current_mission, current_stance, cmd_idx, sensor_counter, hw_counter, events,
                   clock, current_state, pose_orientation, announced, emergency_stop,
                   latest_sensor_data, validated, hw_received,
                   states_received>>
    /\ sleep_left' = IF out'[m] = <<>> THEN Loop(m) ELSE sleep_left
    /\ UNCHANGED <<silence, mission_sent>>

\* ------------------------------------------------------------ user input
\* DirectUserInput / UserInstructions: a command is sent on user_command_tx.
user_command_send(command) ==
    /\ events < MaxEvents
    /\ Len(chan["user_command"]) < ChanCap
    /\ chan' = [chan EXCEPT !["user_command"] = Append(@, command)]
    /\ sent' = Tapped(sent, "user_command", command)
    /\ cmd_idx' = cmd_idx + 1
    /\ events' = events + 1
    /\ log_tx' = <<create_log("DirectUserInput", "Info", "User input")>>
    /\ UNCHANGED <<lifecycle, logging, timing, motor_cmds, calibration, closed, sinks, tap, no_sender, command_count, motor_received,
                   mission_counter, current_mission, current_stance, state_sends, out, sensor_counter, hw_counter,
                   clock, current_state, pose_orientation, announced, emergency_stop,
                   latest_sensor_data, validated, hw_received,
                   states_received>>

\* ----------------------------------------------------------- SensorArray
\* the frame goes to SafetyController first
SensorArray_tick_safety_first(sensor_data) ==
    /\ AtSelect("SensorArray")
    /\ Slept("SensorArray")
    /\ events < MaxEvents
    /\ Emit("SensorArray", chan, NoLog,
            <<Pending("sensor_data_safety", sensor_data, NoLog, NoLog),
              Pending("sensor_data_hw", sensor_data, NoLog, NoLog)>>)
    /\ sensor_counter' = sensor_counter + 1
    /\ events' = events + 1
    /\ UNCHANGED <<lifecycle, logging, motor_cmds, calibration, closed, sinks, tap, no_sender, command_count,
                   motor_received, mission_counter, current_mission,
                   current_stance, state_sends, cmd_idx, hw_counter, clock,
                   current_state, pose_orientation, announced,
                   emergency_stop, latest_sensor_data, validated,
                   states_received, hw_received>>
    /\ sleep_left' = Loop("SensorArray")
    /\ UNCHANGED <<silence, mission_sent>>

\* The sleep(500 ms) branch of the select!, whatever lets the sleep end.
SensorArray_sleep(sensor_data) ==
    /\ AtSelect("SensorArray")
    /\ Slept("SensorArray")
    /\ LET published == IF (sensor_counter + 1) % 10 = 0
                          THEN <<create_log("SensorArray", "Debug", "Published sensor reading")>>
                          ELSE NoLog
           failed_im == <<create_log("SensorArray", "Error",
                                     "Failed to send sensor data to input manager")>>
           failed_sc == <<create_log("SensorArray", "Error",
                                     "Failed to send sensor data to safety controller")>>
       IN Emit("SensorArray", chan, NoLog,
               <<Pending("sensor_data_hw", sensor_data, NoLog, failed_im),
                 Pending("sensor_data_safety", sensor_data, published,
                         failed_sc \o published)>>)
    /\ sensor_counter' = sensor_counter + 1
    /\ UNCHANGED <<lifecycle, logging, motor_cmds, calibration, closed, sinks, tap, no_sender, command_count, motor_received,
                   mission_counter, current_mission, current_stance, state_sends, cmd_idx, hw_counter,
                   clock, current_state, pose_orientation, announced, emergency_stop,
                   latest_sensor_data, validated, hw_received,
                   states_received>>
    /\ sleep_left' = Loop("SensorArray")
    /\ UNCHANGED <<silence, mission_sent>>

\* The 500 ms tick, as one of the inputs of a run.
SensorArray_tick(sensor_data) ==
    /\ events < MaxEvents
    /\ events' = events + 1
    /\ SensorArray_sleep(sensor_data)

\* ----------------------------------------------------- HardwareInterface
HardwareInterface_sensor ==
    /\ AtSelect("HardwareInterface")
    /\ chan["sensor_data_hw"] # <<>>
    /\ Emit("HardwareInterface", Recv("sensor_data_hw"), NoLog,
            <<Pending("sensor_data_im", Head(chan["sensor_data_hw"]), NoLog,
                      <<create_log("HardwareInterface", "Error",
                                   "Failed to forward sensor data to input manager")>>)>>)
    /\ UNCHANGED <<lifecycle, logging, motor_cmds, calibration, closed, sinks, tap, no_sender, command_count, motor_received,
                   mission_counter, current_mission, current_stance, state_sends, cmd_idx, sensor_counter, hw_counter, events,
                   clock, current_state, pose_orientation, announced, emergency_stop,
                   latest_sensor_data, validated, hw_received,
                   states_received>>
    /\ sleep_left' = Loop("HardwareInterface")
    /\ UNCHANGED <<silence, mission_sent>>

\* the integer square root of n, between lo and hi
RECURSIVE isqrt(_, _, _)
isqrt(n, lo, hi) ==
    IF lo = hi THEN lo
    ELSE LET mid == (lo + hi + 1) \div 2
         IN IF mid * mid <= n THEN isqrt(n, mid, hi) ELSE isqrt(n, lo, mid - 1)

abs(x) == IF x < 0 THEN -x ELSE x

\* <<x, y>> scaled by a power of two so that the larger of |x|, |y| is in
\* 8192..16383 (neither is 0 and 0)
RECURSIVE scaled(_, _)
scaled(x, y) ==
    IF abs(x) >= 16384 \/ abs(y) >= 16384 THEN scaled(x \div 2, y \div 2)
    ELSE IF abs(x) < 8192 /\ abs(y) < 8192 THEN scaled(2 * x, 2 * y)
    ELSE <<x, y>>

\* target[1].atan2(target[0]).sin(), in percent: y / sqrt(x^2 + y^2), and 0
\* for atan2(0, 0)
turn_factor(target) ==
    IF target[1] = 0 /\ target[2] = 0 THEN 0
    ELSE LET v == scaled(target[1], target[2])
         IN (100 * v[2]) \div isqrt(v[1] * v[1] + v[2] * v[2], 0, 32767)

\* speeds in percent
calculate_motor_command(target, speed) ==
    [left_speed  |-> (speed * (200 - turn_factor(target))) \div 200,
     right_speed |-> (speed * (200 + turn_factor(target))) \div 200]

handle_behavior_command(cmd) ==
    /\ hw_received' = Append(hw_received, cmd)
    /\ UNCHANGED calibration
    /\ motor_cmds' =
         CASE cmd.behavior.type = "MoveTowards" ->
                Append(motor_cmds,
                       calculate_motor_command(cmd.behavior.target, cmd.behavior.speed))
           [] cmd.behavior.type = "AvoidObstacle" ->
                Append(motor_cmds, [left_speed  |-> cmd.behavior.direction[2] * 50,
                                    right_speed |-> -cmd.behavior.direction[2] * 50])
           [] cmd.behavior.type \in {"EmergencyStop", "AdjustStance", "Idle"} ->
                motor_cmds
    /\ log_tx' =
         CASE cmd.behavior.type = "MoveTowards" ->
                <<create_log("HardwareInterface", "Debug", "Executing MoveTowards")>>
           [] cmd.behavior.type = "AvoidObstacle" ->
                <<create_log("HardwareInterface", "Debug", "Executing AvoidObstacle")>>
           [] cmd.behavior.type = "EmergencyStop" ->
                <<create_log("HardwareInterface", "Warn", "Emergency stop executed")>>
           [] cmd.behavior.type = "AdjustStance" ->
                <<create_log("HardwareInterface", "Debug", "Stance adjustment received")>>
           [] cmd.behavior.type = "Idle" -> NoLog

HardwareInterface_behavior ==
    /\ AtSelect("HardwareInterface")
    /\ chan["behavior_hw"] # <<>>
    /\ chan' = Recv("behavior_hw")
    /\ handle_behavior_command(Head(chan["behavior_hw"]))
    /\ UNCHANGED <<lifecycle, logging, closed, sinks, tap, no_sender, command_count, motor_received,
                   mission_counter, current_mission, current_stance, sent, state_sends, out, cmd_idx, sensor_counter, hw_counter, events,
                   clock, current_state, pose_orientation, announced, emergency_stop,
                   latest_sensor_data, validated,
                   states_received>>
    /\ sleep_left' = Loop("HardwareInterface")
    /\ UNCHANGED <<silence, mission_sent>>

\* battery_voltage is an f32, counted here in units of 2^-20 V (the spacing of
\* the f32 values between 8 and 16); counter as f32 * 0.01 in units of 2^-30.
FullVoltage == 13212058      \* 12.6 as f32
Hundredth   == 10737418      \* 0.01 as f32, in units of 2^-30
HalfVolt    == 536870912     \* 0.5, in units of 2^-30
LowVoltage  == 12058624      \* 11.5

\* a - d / 1024 as f32, for a between 8 V and 16 V: the nearest multiple of
\* 2^-20 V, ties to even
f32_sub(a, d) ==
    LET q == d \div 1024
        r == d % 1024
    IN IF r < 512 \/ (r = 512 /\ (a - q) % 2 = 0) THEN a - q ELSE a - q - 1

\* the drop is not limited to 0.5 V
generate_hardware_status_no_floor(counter) ==
    LET voltage == f32_sub(FullVoltage, as_f32(counter * Hundredth))
    IN [battery_voltage |-> voltage,
        motor_temps |-> <<450, 465, 448, 472>>,
        health |-> IF voltage > LowVoltage THEN "Healthy" ELSE "Warning"]

generate_hardware_status(counter) ==
    LET drop == as_f32(counter * Hundredth)
        voltage == f32_sub(FullVoltage, IF drop < HalfVolt THEN drop ELSE HalfVolt)
    IN [battery_voltage |-> voltage,
        motor_temps |-> <<450, 465, 448, 472>>,
        health |-> IF voltage > LowVoltage THEN "Healthy" ELSE "Warning"]

\* The sleep(2 s) branch of the select!, whatever lets the sleep end.
HardwareInterface_period ==
    /\ AtSelect("HardwareInterface")
    /\ Slept("HardwareInterface")
    /\ Emit("HardwareInterface", chan, NoLog,
            <<Pending("hw_status", generate_hardware_status(hw_counter), NoLog,
                      <<create_log("HardwareInterface", "Error",
                                   "Failed to send hardware status")>>)>>)
    /\ hw_counter' = hw_counter + 1
    /\ sleep_left' = Loop("HardwareInterface")
    /\ silence' = 0
    /\ UNCHANGED mission_sent
    /\ UNCHANGED <<lifecycle, logging, motor_cmds, calibration, closed, sinks, tap, no_sender,
                   command_count, motor_received, mission_counter, current_mission,
                   current_stance, state_sends, cmd_idx, sensor_counter,
                   clock, current_state, pose_orientation, announced, emergency_stop,
                   latest_sensor_data, validated, hw_received, states_received>>

\* The 2 s status tick, as one of the inputs of a run.
HardwareInterface_status ==
    /\ events < MaxEvents
    /\ events' = events + 1
    /\ HardwareInterface_period

\* ---------------------------------------------------------- InputManager
handle_sensor_data ==
    /\ AtSelect("InputManager")
    /\ chan["sensor_data_im"] # <<>>
    /\ LET sensor_data == Head(chan["sensor_data_im"]) IN
         Emit("InputManager", Recv("sensor_data_im"), NoLog,
              <<Pending("im_env", sensor_data, NoLog, NoLog),
                Pending("im_state_sensor", sensor_data, NoLog, NoLog)>>)
    /\ UNCHANGED <<lifecycle, logging, timing, motor_cmds, calibration, closed, sinks, tap, no_sender, command_count, motor_received,
                   mission_counter, current_mission, current_stance, state_sends, cmd_idx, sensor_counter, hw_counter, events,
                   clock, current_state, pose_orientation, announced, emergency_stop,
                   latest_sensor_data, validated, hw_received,
                   states_received>>

\* the command goes to StateManager only
handle_user_command_state_only ==
    /\ AtSelect("InputManager")
    /\ chan["user_command"] # <<>>
    /\ LET command == Head(chan["user_command"]) IN
         Emit("InputManager", Recv("user_command"),
              <<create_log("InputManager", "Info", "Routing user command")>>,
              <<Pending("im_state_cmd", command, NoLog, NoLog)>>)
    /\ UNCHANGED <<lifecycle, logging, timing, motor_cmds, calibration, closed, sinks, tap, no_sender, command_count,
                   motor_received, mission_counter, current_mission,
                   current_stance, state_sends, cmd_idx, sensor_counter,
                   hw_counter, events, clock, current_state,
                   pose_orientation, announced, emergency_stop,
                   latest_sensor_data, validated, states_received,
                   hw_received>>

handle_user_command ==
    /\ AtSelect("InputManager")
    /\ chan["user_command"] # <<>>
    /\ LET command == Head(chan["user_command"]) IN
         Emit("InputManager", Recv("user_command"),
              <<create_log("InputManager", "Info", "Routing user command")>>,
              <<Pending("im_state_cmd", command, NoLog, NoLog),
                Pending("im_task", command, NoLog, NoLog)>>)
    /\ UNCHANGED <<lifecycle, logging, timing, motor_cmds, calibration, closed, sinks, tap, no_sender, command_count, motor_received,
                   mission_counter, current_mission, current_stance, state_sends, cmd_idx, sensor_counter, hw_counter, events,
                   clock, current_state, pose_orientation, announced, emergency_stop,
                   latest_sensor_data, validated, hw_received,
                   states_received>>

handle_hardware_status ==
    /\ AtSelect("InputManager")
    /\ chan["hw_status"] # <<>>
    /\ chan' = Recv("hw_status")
    /\ LET status == Head(chan["hw_status"]) IN
         log_tx' = CASE status.health = "Warning" ->
                          <<create_log("InputManager", "Warn", "Hardware warning")>>
                     [] status.health = "Critical" ->
                          <<create_log("InputManager", "Error", "Hardware critical")>>
                     [] OTHER -> NoLog
    /\ UNCHANGED <<lifecycle, logging, timing, motor_cmds, calibration, closed, sinks, tap, no_sender, command_count, motor_received,
                   mission_counter, current_mission, current_stance, sent, state_sends, out, cmd_idx, sensor_counter, hw_counter, events,
                   clock, current_state, pose_orientation, announced, emergency_stop,
                   latest_sensor_data, validated, hw_received,
                   states_received>>

\* ---------------------------------------------------------- StateManager
update_pose(sensor_data) ==
    pose_orientation' = sensor_data.orientation

StateManager_sensor ==
    /\ AtSelect("StateManager")
    /\ chan["im_state_sensor"] # <<>>
    /\ chan' = Recv("im_state_sensor")
    /\ update_pose(Head(chan["im_state_sensor"]))
    /\ log_tx' = NoLog
    /\ UNCHANGED <<lifecycle, logging, timing, motor_cmds, calibration, closed, sinks, tap, no_sender, command_count, motor_received,
                   mission_counter, current_mission, current_stance, sent, state_sends, out, cmd_idx, sensor_counter, hw_counter, events,
                   clock, current_state, announced, emergency_stop,
                   latest_sensor_data, validated, hw_received,
                   states_received>>

\* EmergencyStop is left only by Resume
new_state_sticky(command) ==
    IF current_state = "EmergencyStop" /\ command # [type |-> "SystemCommand", cmd |-> "Resume"]
      THEN "EmergencyStop"
      ELSE CASE command.type = "ManualControl" -> "ManualControl"
             [] command.type = "MissionCommand" -> "ExecutingMission"
             [] command.type = "SystemCommand" ->
                  CASE command.cmd = "Pause" -> "Paused"
                    [] command.cmd = "Resume" -> "ExecutingMission"
                    [] command.cmd = "EmergencyStop" -> "EmergencyStop"
                    [] command.cmd = "Calibrate" -> "Idle"

\* the match of handle_command
new_state(command) ==
    CASE command.type = "ManualControl" -> "ManualControl"
      [] command.type = "MissionCommand" -> "ExecutingMission"
      [] command.type = "SystemCommand" ->
           CASE command.cmd = "Pause" -> "Paused"
             [] command.cmd = "Resume" -> "ExecutingMission"
             [] command.cmd = "EmergencyStop" -> "EmergencyStop"
             [] command.cmd = "Calibrate" -> "Idle"

\* the comparison of discriminants is missing: every command is announced
handle_command_always_announce(command) ==
    LET sends == <<Pending("state", new_state(command), NoLog, NoLog),
                   Pending("state_safety", new_state(command), NoLog, NoLog),
                   Pending("state_task", new_state(command), NoLog, NoLog)>>
    IN /\ current_state' = new_state(command)
       /\ announced' = Append(announced,
                              [command |-> command, state |-> new_state(command)])
       /\ Emit("StateManager", Recv("im_state_cmd"),
               <<create_log("StateManager", "Info", "State transition")>>, sends)
       /\ state_sends' = state_sends \o Completed(sends, out'["StateManager"])

\* States are represented by their variant, so equality of states is equality
\* of std::mem::discriminant.
handle_command(command) ==
    IF current_state # new_state(command)
      THEN LET sends == <<Pending("state", new_state(command), NoLog, NoLog),
                          Pending("state_safety", new_state(command), NoLog, NoLog),
                          Pending("state_task", new_state(command), NoLog, NoLog)>>
           IN /\ current_state' = new_state(command)
              /\ announced' = Append(announced,
                                     [command |-> command, state |-> new_state(command)])
              /\ Emit("StateManager", Recv("im_state_cmd"),
                      <<create_log("StateManager", "Info", "State transition")>>, sends)
              /\ state_sends' = state_sends \o Completed(sends, out'["StateManager"])
      ELSE /\ UNCHANGED <<lifecycle, logging, timing, motor_cmds, calibration, current_state, announced, state_sends>>
           /\ Emit("StateManager", Recv("im_state_cmd"), NoLog, <<>>)

StateManager_command ==
    /\ AtSelect("StateManager")
    /\ chan["im_state_cmd"] # <<>>
    /\ handle_command(Head(chan["im_state_cmd"]))
    /\ UNCHANGED <<lifecycle, logging, timing, motor_cmds, calibration, closed, sinks, tap, no_sender, command_count, motor_received,
                   mission_counter, current_mission, current_stance, cmd_idx, sensor_counter, hw_counter, events,
                   clock, pose_orientation, emergency_stop,
                   latest_sensor_data, validated, hw_received,
                   states_received>>

\* ------------------------------------------- planning branch -> Behaviour
\* GoalPlanning (behavior_path_goal) or ObstacleAvoidance
\* (behavior_path_obstacle) sends a path to Behaviour.
path_send(ch, path) ==
    /\ events < MaxEvents
    /\ Len(chan[ch]) < ChanCap
    /\ chan' = [chan EXCEPT ![ch] = Append(@, path)]
    /\ events' = events + 1
    /\ log_tx' = NoLog
    /\ UNCHANGED <<lifecycle, logging, timing, motor_cmds, calibration, closed, sinks, tap, no_sender, command_count, motor_received,
                   mission_counter, current_mission, current_stance, sent, state_sends, out, cmd_idx, sensor_counter, hw_counter,
                   clock, current_state, pose_orientation, announced, emergency_stop,
                   latest_sensor_data, validated, hw_received,
                   states_received>>

\* Stance publishes an adjusted stance to Behaviour.
stance_send(new_stance) ==
    /\ events < MaxEvents
    /\ Len(chan["stance_behavior"]) < ChanCap
    /\ chan' = [chan EXCEPT !["stance_behavior"] = Append(@, new_stance)]
    /\ events' = events + 1
    /\ log_tx' = <<create_log("Stance", "Info", "Adjusting stance")>>
    /\ UNCHANGED <<lifecycle, logging, timing, motor_cmds, calibration, closed, sinks, tap, no_sender, command_count, motor_received,
                   mission_counter, current_mission, current_stance, sent, state_sends, out, cmd_idx, sensor_counter, hw_counter,
                   clock, current_state, pose_orientation, announced, emergency_stop,
                   latest_sensor_data, validated, hw_received,
                   states_received>>

\* ------------------------------------------------------------- Behaviour

\* the command targets the last waypoint of the path
execute_path_last_waypoint(path, queues) ==
    IF path.waypoints # <<>>
      THEN /\ Emit("Behaviour", queues,
                   <<create_log("Behaviour", "Info", "Executing path")>>,
                   <<Pending("behavior_safety",
                             [timestamp |-> clock,
                              behavior |-> [type |-> "MoveTowards",
                                            target |-> path.waypoints[Len(path.waypoints)],
                                            speed |-> PathSpeed],
                              priority |-> PathPriority],
                             NoLog,
                             <<create_log("Behaviour", "Error",
                                 "Failed to send behavior command to safety controller")>>)>>)
           /\ clock' = clock + 1
      ELSE /\ Emit("Behaviour", queues,
                   <<create_log("Behaviour", "Info", "Executing path")>>, <<>>)
           /\ UNCHANGED clock

execute_path(path, queues) ==
    IF path.waypoints # <<>>
      THEN /\ Emit("Behaviour", queues,
                   <<create_log("Behaviour", "Info", "Executing path")>>,
                   <<Pending("behavior_safety",
                             [timestamp |-> clock,
                              behavior |-> [type |-> "MoveTowards",
                                            target |-> Head(path.waypoints),
                                            speed |-> PathSpeed],
                              priority |-> PathPriority],
                             NoLog,
                             <<create_log("Behaviour", "Error",
                                 "Failed to send behavior command to safety controller")>>)>>)
           /\ clock' = clock + 1
      ELSE /\ Emit("Behaviour", queues,
                   <<create_log("Behaviour", "Info", "Executing path")>>, <<>>)
           /\ UNCHANGED clock

Behaviour_path(ch) ==
    /\ AtSelect("Behaviour")
    /\ chan[ch] # <<>>
    /\ execute_path(Head(chan[ch]), Recv(ch))
    /\ UNCHANGED <<lifecycle, logging, timing, motor_cmds, calibration, closed, sinks, tap, no_sender, command_count, motor_received,
                   mission_counter, current_mission, current_stance, state_sends, cmd_idx, sensor_counter, hw_counter, events,
                   current_state, pose_orientation, announced, emergency_stop,
                   latest_sensor_data, validated, hw_received,
                   states_received>>

adjust_for_stance(stance) ==
    /\ Emit("Behaviour", Recv("stance_behavior"),
            <<create_log("Behaviour", "Debug", "Adjusting behavior for stance")>>,
            <<Pending("behavior_safety",
                      [timestamp |-> clock,
                       behavior |-> [type |-> "AdjustStance", stance |-> stance],
                       priority |-> StancePriority],
                      NoLog, NoLog)>>)
    /\ clock' = clock + 1

Behaviour_stance ==
    /\ AtSelect("Behaviour")
    /\ chan["stance_behavior"] # <<>>
    /\ adjust_for_stance(Head(chan["stance_behavior"]))
    /\ UNCHANGED <<lifecycle, logging, timing, motor_cmds, calibration, closed, sinks, tap, no_sender, command_count, motor_received,
                   mission_counter, current_mission, current_stance, state_sends, cmd_idx, sensor_counter, hw_counter, events,
                   current_state, pose_orientation, announced, emergency_stop,
                   latest_sensor_data, validated, hw_received,
                   states_received>>

\* ------------------------------------------------------ SafetyController
\* the `return` after the log record is missing: the command goes on to the send
Blocked_no_return(cmd, level, message) ==
    /\ validated' = Append(validated, [cmd |-> cmd, forwarded |-> FALSE])
    /\ Emit("SafetyController", Recv("behavior_safety"),
            <<create_log("SafetyController", level, message)>>,
            <<Pending("behavior_hw", cmd, NoLog, NoLog)>>)

Blocked(cmd, level, message) ==
    /\ validated' = Append(validated, [cmd |-> cmd, forwarded |-> FALSE])
    /\ Emit("SafetyController", Recv("behavior_safety"),
            <<create_log("SafetyController", level, message)>>, <<>>)

\* the command is forwarded with the priority raised
Forwarded_reprioritised(cmd) ==
    /\ validated' = Append(validated, [cmd |-> cmd, forwarded |-> TRUE])
    /\ Emit("SafetyController", Recv("behavior_safety"), NoLog,
            <<Pending("behavior_hw", [cmd EXCEPT !.priority = StopPriority],
                <<create_log("SafetyController", "Debug",
                    "Command validated and forwarded to hardware interface")>>,
                <<create_log("SafetyController", "Error",
                    "Failed to send validated command to hardware interface")>>)>>)

Forwarded(cmd) ==
    /\ validated' = Append(validated, [cmd |-> cmd, forwarded |-> TRUE])
    /\ Emit("SafetyController", Recv("behavior_safety"), NoLog,
            <<Pending("behavior_hw", cmd,
                <<create_log("SafetyController", "Debug",
                    "Command validated and forwarded to hardware interface")>>,
                <<create_log("SafetyController", "Error",
                    "Failed to send validated command to hardware interface")>>)>>)

\* the battery test comes before the test of the emergency_stop flag
validate_and_execute_battery_first(cmd) ==
    IF latest_sensor_data # <<>>
         /\ latest_sensor_data[1].battery_level < CriticalBattery
      THEN Blocked(cmd, "Error", "Command blocked - critical battery level")
      ELSE IF emergency_stop
      THEN Blocked(cmd, "Warn", "Command blocked - emergency stop active")
      ELSE IF latest_sensor_data # <<>>
                /\ cmd.behavior.type = "MoveTowards"
                /\ Len(latest_sensor_data[1].distance_sensors) >= 1
                /\ latest_sensor_data[1].distance_sensors[1] < FrontObstacle
      THEN Blocked(cmd, "Warn", "Command blocked - obstacle too close")
      ELSE Forwarded(cmd)

\* the check of the emergency_stop flag is missing
validate_and_execute_no_latch(cmd) ==
    IF latest_sensor_data # <<>>
         /\ latest_sensor_data[1].battery_level < CriticalBattery
      THEN Blocked(cmd, "Error", "Command blocked - critical battery level")
      ELSE IF latest_sensor_data # <<>>
                /\ cmd.behavior.type = "MoveTowards"
                /\ Len(latest_sensor_data[1].distance_sensors) >= 1
                /\ latest_sensor_data[1].distance_sensors[1] < FrontObstacle
      THEN Blocked(cmd, "Warn", "Command blocked - obstacle too close")
      ELSE Forwarded(cmd)


\* without sensor data no command is let through
validate_and_execute_fail_closed(cmd) ==
    IF emergency_stop
      THEN Blocked(cmd, "Warn", "Command blocked - emergency stop active")
      ELSE IF latest_sensor_data = <<>>
      THEN Blocked(cmd, "Error", "Command blocked - no sensor data")
      ELSE IF latest_sensor_data[1].battery_level < CriticalBattery
      THEN Blocked(cmd, "Error", "Command blocked - critical battery level")
      ELSE IF /\ cmd.behavior.type = "MoveTowards"
              /\ Len(latest_sensor_data[1].distance_sensors) >= 1
              /\ latest_sensor_data[1].distance_sensors[1] < FrontObstacle
      THEN Blocked(cmd, "Warn", "Command blocked - obstacle too close")
      ELSE Forwarded(cmd)


\* a command is blocked while the last mode received is Paused
validate_and_execute_mode_gated(cmd) ==
    IF emergency_stop
      THEN Blocked(cmd, "Warn", "Command blocked - emergency stop active")
      ELSE IF states_received # <<>> /\ states_received[Len(states_received)] = "Paused"
      THEN Blocked(cmd, "Warn", "Command blocked - paused")
      ELSE IF latest_sensor_data # <<>>
                /\ latest_sensor_data[1].battery_level < CriticalBattery
      THEN Blocked(cmd, "Error", "Command blocked - critical battery level")
      ELSE IF latest_sensor_data # <<>>
                /\ cmd.behavior.type = "MoveTowards"
                /\ Len(latest_sensor_data[1].distance_sensors) >= 1
                /\ latest_sensor_data[1].distance_sensors[1] < FrontObstacle
      THEN Blocked(cmd, "Warn", "Command blocked - obstacle too close")
      ELSE Forwarded(cmd)

validate_and_execute(cmd) ==
    IF emergency_stop
      THEN Blocked(cmd, "Warn", "Command blocked - emergency stop active")
      ELSE IF latest_sensor_data # <<>>
                /\ latest_sensor_data[1].battery_level < CriticalBattery
      THEN Blocked(cmd, "Error", "Command blocked - critical battery level")
      ELSE IF latest_sensor_data # <<>>
                /\ cmd.behavior.type = "MoveTowards"
                /\ Len(latest_sensor_data[1].distance_sensors) >= 1
                /\ latest_sensor_data[1].distance_sensors[1] < FrontObstacle
      THEN Blocked(cmd, "Warn", "Command blocked - obstacle too close")
      ELSE Forwarded(cmd)

SafetyController_behavior ==
    /\ AtSelect("SafetyController")
    /\ chan["behavior_safety"] # <<>>
    /\ validate_and_execute(Head(chan["behavior_safety"]))
    /\ UNCHANGED <<lifecycle, logging, timing, motor_cmds, calibration, closed, sinks, tap, no_sender, command_count, motor_received,
                   mission_counter, current_mission, current_stance, state_sends, cmd_idx, sensor_counter, hw_counter, events,
                   clock, current_state, pose_orientation, announced, emergency_stop,
                   latest_sensor_data, hw_received,
                   states_received>>

\* the records check_safety emits for a frame
check_safety(sensor_data) ==
    LET ds == sensor_data.distance_sensors
        close[i \in 0..Len(ds)] ==
            IF i = 0 THEN <<>>
            ELSE close[i - 1] \o
                 (IF ds[i] < CloseObstacle
                    THEN <<create_log("SafetyController", "Warn", "Close obstacle on sensor")>>
                    ELSE <<>>)
    IN (IF sensor_data.battery_level < CriticalBattery
          THEN <<create_log("SafetyController", "Error", "Critical battery level")>>
          ELSE <<>>) \o close[Len(ds)]

\* a frame with a critical battery level engages the latch
SafetyController_sensor_latches ==
    /\ AtSelect("SafetyController")
    /\ chan["sensor_data_safety"] # <<>>
    /\ chan' = Recv("sensor_data_safety")
    /\ latest_sensor_data' = <<Head(chan["sensor_data_safety"])>>
    /\ log_tx' = check_safety(Head(chan["sensor_data_safety"]))
    /\ emergency_stop' = (emergency_stop
                            \/ Head(chan["sensor_data_safety"]).battery_level < CriticalBattery)
    /\ UNCHANGED <<lifecycle, logging, timing, motor_cmds, calibration, closed, sinks, tap, no_sender, command_count, motor_received,
                   mission_counter, current_mission, current_stance, sent, state_sends, out, cmd_idx, sensor_counter, hw_counter, events,
                   clock, current_state, pose_orientation, announced,
                   validated, hw_received,
                   states_received>>

SafetyController_sensor ==
    /\ AtSelect("SafetyController")
    /\ chan["sensor_data_safety"] # <<>>
    /\ chan' = Recv("sensor_data_safety")
    /\ latest_sensor_data' = <<Head(chan["sensor_data_safety"])>>
    /\ log_tx' = check_safety(Head(chan["sensor_data_safety"]))
    /\ UNCHANGED <<lifecycle, logging, timing, motor_cmds, calibration, closed, sinks, tap, no_sender, command_count, motor_received,
                   mission_counter, current_mission, current_stance, sent, state_sends, out, cmd_idx, sensor_counter, hw_counter, events,
                   clock, current_state, pose_orientation, announced, emergency_stop,
                   validated, hw_received,
                   states_received>>

stop_cmd ==
    [timestamp |-> clock, behavior |-> [type |-> "EmergencyStop"], priority |-> StopPriority]

\* the stop command is sent only when the latch was not set before
send_stop_command_once ==
    /\ Emit("SafetyController", Recv("state_safety"),
            <<create_log("SafetyController", "Error", "EMERGENCY STOP ACTIVATED")>>,
            IF emergency_stop THEN <<>>
            ELSE <<Pending("behavior_hw", stop_cmd, NoLog, NoLog)>>)
    /\ clock' = clock + 1

\* preceded by the Error record of the EmergencyStop branch of run
send_stop_command ==
    /\ Emit("SafetyController", Recv("state_safety"),
            <<create_log("SafetyController", "Error", "EMERGENCY STOP ACTIVATED")>>,
            <<Pending("behavior_hw", stop_cmd, NoLog, NoLog)>>)
    /\ clock' = clock + 1


\* a mode other than EmergencyStop releases the latch
SafetyController_state_releases ==
    /\ AtSelect("SafetyController")
    /\ chan["state_safety"] # <<>>
    /\ states_received' = Append(states_received, Head(chan["state_safety"]))
    /\ emergency_stop' = (Head(chan["state_safety"]) = "EmergencyStop")
    /\ IF Head(chan["state_safety"]) = "EmergencyStop"
         THEN send_stop_command
         ELSE /\ UNCHANGED clock
              /\ Emit("SafetyController", Recv("state_safety"), NoLog, <<>>)
    /\ UNCHANGED <<lifecycle, logging, timing, motor_cmds, calibration, closed, sinks, tap, no_sender, command_count, motor_received,
                   mission_counter, current_mission, current_stance, state_sends, cmd_idx, sensor_counter, hw_counter, events,
                   current_state, pose_orientation, announced,
                   latest_sensor_data, validated, hw_received>>

SafetyController_state ==
    /\ AtSelect("SafetyController")
    /\ chan["state_safety"] # <<>>
    /\ states_received' = Append(states_received, Head(chan["state_safety"]))
    /\ IF Head(chan["state_safety"]) = "EmergencyStop"
         THEN /\ emergency_stop' = TRUE
              /\ send_stop_command
         ELSE /\ UNCHANGED <<lifecycle, logging, timing, motor_cmds, calibration, emergency_stop, clock>>
              /\ Emit("SafetyController", Recv("state_safety"), NoLog, <<>>)
    /\ UNCHANGED <<lifecycle, logging, timing, motor_cmds, calibration, closed, sinks, tap, no_sender, command_count, motor_received,
                   mission_counter, current_mission, current_stance, state_sends, cmd_idx, sensor_counter, hw_counter, events,
                   current_state, pose_orientation, announced,
                   latest_sensor_data, validated, hw_received>>

\* ------------------------------------------------ SafetyController harness
\* Any value of the three inbound message types is put on the queues.
BehaviorKinds ==
    {[type |-> "Idle"],
     [type |-> "MoveTowards", target |-> <<4, 4, 0>>, speed |-> PathSpeed],
     [type |-> "AvoidObstacle", direction |-> <<0, 1, 0>>],
     [type |-> "AdjustStance", stance |-> [stance_type |-> "LowProfile", stability |-> 80]],
     [type |-> "EmergencyStop"]}

HarnessFrames ==
    {[distance_sensors |-> <<250, 300>>, battery_level |-> 85, orientation |-> Identity],
     [distance_sensors |-> <<49, 30>>,   battery_level |-> 85, orientation |-> Identity],
     [distance_sensors |-> <<50, 29>>,   battery_level |-> 10, orientation |-> Identity],
     [distance_sensors |-> <<49, 300>>,  battery_level |-> 9,  orientation |-> Identity],
     [distance_sensors |-> <<>>,         battery_level |-> 85, orientation |-> Identity]}

inject(ch, msg, max) ==
    /\ events < max
    /\ Len(chan[ch]) < ChanCap
    /\ chan' = [chan EXCEPT ![ch] = Append(@, msg)]
    /\ sent' = Tapped(sent, ch, msg)
    /\ events' = events + 1
    /\ log_tx' = NoLog
    /\ UNCHANGED <<lifecycle, logging, timing, motor_cmds, calibration, closed, sinks, tap, no_sender, command_count, motor_received,
                   mission_counter, current_mission, current_stance, state_sends, out, cmd_idx, sensor_counter, hw_counter,
                   current_state, pose_orientation, announced, emergency_stop,
                   latest_sensor_data, validated, hw_received,
                   states_received>>

inject_behavior(behavior, priority) ==
    /\ inject("behavior_safety",
              [timestamp |-> clock, behavior |-> behavior, priority |-> priority],
              MaxInject)
    /\ clock' = clock + 1

inject_sensor(sensor_data) ==
    /\ inject("sensor_data_safety", sensor_data, MaxInject)
    /\ UNCHANGED clock

inject_state(state) ==
    /\ inject("state_safety", state, MaxInject)
    /\ UNCHANGED clock

NextSC ==
    \/ \E behavior \in BehaviorKinds : inject_behavior(behavior, PathPriority)
    \/ \E sensor_data \in HarnessFrames : inject_sensor(sensor_data)
    \/ \E state \in RobotStates : inject_state(state)
    \/ SafetyController_behavior
    \/ SafetyController_sensor
    \/ SafetyController_state
    \/ Send("SafetyController")
    \/ HardwareInterface_behavior

SpecSC == Init /\ [][NextSC]_vars

\* ----------------------------------------------------- TaskMissionManager
\* the tasks create_mission_from_command builds, one Navigate per waypoint
Navigate(id, waypoint) ==
    [id |-> id, task_type |-> [type |-> "Navigate", waypoint |-> waypoint],
     status |-> "Pending"]

\* a Patrol that makes its tasks once per loop
create_mission_from_command_loops(cmd) ==
    [id |-> mission_counter + 1,
     priority |-> 5,
     tasks |->
        CASE cmd.cmd = "GoToWaypoint" ->
               <<Navigate(1, [lat |-> cmd.lat, lon |-> cmd.lon, tolerance |-> 200])>>
          [] cmd.cmd = "Patrol" ->
               [i \in 1..(Len(cmd.waypoints) * cmd.loops) |->
                   Navigate(i, cmd.waypoints[((i - 1) % Len(cmd.waypoints)) + 1])]
          [] cmd.cmd = "FollowPath" ->
               [i \in 1..Len(cmd.waypoints) |-> Navigate(i, cmd.waypoints[i])]
          [] cmd.cmd = "ReturnHome" -> <<Navigate(1, Home)>>]

create_mission_from_command(cmd) ==
    [id |-> mission_counter + 1,
     priority |-> 5,
     tasks |->
        CASE cmd.cmd = "GoToWaypoint" ->
               <<Navigate(1, [lat |-> cmd.lat, lon |-> cmd.lon, tolerance |-> 200])>>
          [] cmd.cmd \in {"Patrol", "FollowPath"} ->
               [i \in 1..Len(cmd.waypoints) |-> Navigate(i, cmd.waypoints[i])]
          [] cmd.cmd = "ReturnHome" -> <<Navigate(1, Home)>>]

\* every task becomes a Goal at the origin
task_to_goal_origin(task) ==
    [target_pose |-> [position |-> Origin, orientation |-> Identity],
     goal_type |-> "ReachPosition"]

task_to_goal(task) ==
    IF task.task_type.type = "Navigate"
      THEN [target_pose |-> [position |-> <<as_f32(task.task_type.waypoint.lat),
                                            as_f32(task.task_type.waypoint.lon), 0>>,
                             orientation |-> Identity],
            goal_type |-> "ReachPosition"]
      ELSE [target_pose |-> [position |-> Origin, orientation |-> Identity],
            goal_type |-> "ReachPosition"]

\* the sends of execute_mission
execute_mission(mission) ==
    [i \in 1..Len(mission.tasks) |->
        Pending("goal", task_to_goal(mission.tasks[i]), NoLog, NoLog)]

TaskMissionManager_handle_command(command) ==
    IF command.type = "MissionCommand"
      THEN LET mission == create_mission_from_command(command) IN
             /\ mission_counter' = mission_counter + 1
             /\ current_mission' = <<mission>>
             /\ Emit("TaskMissionManager", Recv("im_task"),
                     <<create_log("TaskMissionManager", "Info", "New mission")>>,
                     execute_mission(mission))
      ELSE /\ UNCHANGED <<lifecycle, logging, timing, motor_cmds, calibration, mission_counter, current_mission>>
           /\ Emit("TaskMissionManager", Recv("im_task"), NoLog, <<>>)

TaskMissionManager_command ==
    /\ AtSelect("TaskMissionManager")
    /\ chan["im_task"] # <<>>
    /\ TaskMissionManager_handle_command(Head(chan["im_task"]))
    /\ UNCHANGED <<lifecycle, logging, timing, motor_cmds, calibration, closed, sinks, tap, no_sender, command_count,
                   motor_received, current_stance, state_sends, cmd_idx,
                   sensor_counter, hw_counter, events, clock, current_state,
                   pose_orientation, announced, emergency_stop,
                   latest_sensor_data, validated, states_received,
                   hw_received>>

\* the state branch of run takes the mode and does nothing with it
TaskMissionManager_state ==
    /\ AtSelect("TaskMissionManager")
    /\ chan["state_task"] # <<>>
    /\ chan' = Recv("state_task")
    /\ log_tx' = NoLog
    /\ UNCHANGED <<lifecycle, logging, timing, motor_cmds, calibration, closed, sinks, tap, sent, no_sender, command_count,
                   motor_received, mission_counter, current_mission,
                   current_stance, out, state_sends, cmd_idx, sensor_counter,
                   hw_counter, events, clock, current_state,
                   pose_orientation, announced, emergency_stop,
                   latest_sensor_data, validated, states_received,
                   hw_received>>

\* ----------------------------------------------------------- GoalPlanning
OriginPose == [position |-> Origin, orientation |-> Identity]

PathRequest(start, goal) == [type |-> "Plan", start |-> start, goal |-> goal]


\* the plan is requested from the goal's own pose
plan_to_goal_from_target(goal) ==
    Emit("GoalPlanning", Recv("goal"),
         <<create_log("GoalPlanning", "Info", "Planning path to goal")>>,
         <<Pending("stance_goal_req", StanceQuery, NoLog, NoLog),
           Pending("goal_obstacle_req", PathRequest(goal.target_pose, goal.target_pose),
                   NoLog, NoLog)>>)

plan_to_goal(goal) ==
    Emit("GoalPlanning", Recv("goal"),
         <<create_log("GoalPlanning", "Info", "Planning path to goal")>>,
         <<Pending("stance_goal_req", StanceQuery, NoLog, NoLog),
           Pending("goal_obstacle_req", PathRequest(OriginPose, goal.target_pose),
                   NoLog, NoLog)>>)

GoalPlanning_goal ==
    /\ AtSelect("GoalPlanning")
    /\ chan["goal"] # <<>>
    /\ plan_to_goal(Head(chan["goal"]))
    /\ UNCHANGED <<lifecycle, logging, timing, motor_cmds, calibration, closed, sinks, tap, no_sender, command_count,
                   motor_received, mission_counter, current_mission,
                   current_stance, state_sends, cmd_idx, sensor_counter,
                   hw_counter, events, clock, current_state,
                   pose_orientation, announced, emergency_stop,
                   latest_sensor_data, validated, states_received,
                   hw_received>>

\* the path branch without the send to Behaviour
GoalPlanning_path_keeps ==
    /\ AtSelect("GoalPlanning")
    /\ chan["obstacle_goal_resp"] # <<>>
    /\ Emit("GoalPlanning", Recv("obstacle_goal_resp"),
            <<create_log("GoalPlanning", "Info", "Received safe path")>>, <<>>)
    /\ UNCHANGED <<lifecycle, logging, timing, motor_cmds, calibration, closed, sinks, tap, no_sender, command_count,
                   motor_received, mission_counter, current_mission,
                   current_stance, state_sends, cmd_idx, sensor_counter,
                   hw_counter, events, clock, current_state,
                   pose_orientation, announced, emergency_stop,
                   latest_sensor_data, validated, states_received,
                   hw_received>>

GoalPlanning_path ==
    /\ AtSelect("GoalPlanning")
    /\ chan["obstacle_goal_resp"] # <<>>
    /\ Emit("GoalPlanning", Recv("obstacle_goal_resp"),
            <<create_log("GoalPlanning", "Info", "Received safe path")>>,
            <<Pending("behavior_path_goal", Head(chan["obstacle_goal_resp"]),
                      NoLog, NoLog)>>)
    /\ UNCHANGED <<lifecycle, logging, timing, motor_cmds, calibration, closed, sinks, tap, no_sender, command_count,
                   motor_received, mission_counter, current_mission,
                   current_stance, state_sends, cmd_idx, sensor_counter,
                   hw_counter, events, clock, current_state,
                   pose_orientation, announced, emergency_stop,
                   latest_sensor_data, validated, states_received,
                   hw_received>>

GoalPlanning_stance ==
    /\ AtSelect("GoalPlanning")
    /\ chan["stance_goal_resp"] # <<>>
    /\ chan' = Recv("stance_goal_resp")
    /\ log_tx' = <<create_log("GoalPlanning", "Debug", "Received stance config")>>
    /\ UNCHANGED <<lifecycle, logging, timing, motor_cmds, calibration, closed, sinks, tap, sent, no_sender, command_count,
                   motor_received, mission_counter, current_mission,
                   current_stance, out, state_sends, cmd_idx, sensor_counter,
                   hw_counter, events, clock, current_state,
                   pose_orientation, announced, emergency_stop,
                   latest_sensor_data, validated, states_received,
                   hw_received>>

\* ------------------------------------------------------ ObstacleAvoidance
\* t * d for t = i / 4, to the unit
quarters(d, i) == (d \div 4) * i + ((d % 4) * i) \div 4

\* start + t * (goal - start) with t = i / 5
interpolate_fifths(start, goal, i) ==
    as_f32(start + as_f32(((goal - start) \div 5) * i))

\* start + t * (goal - start), each operation rounded to f32 (d is the
\* difference, m the product)
interpolate(start, goal, i) ==
    CHOOSE pos \in {as_f32(start + m) :
                      m \in {as_f32(quarters(d, i)) : d \in {as_f32(goal - start)}}} : TRUE

\* the waypoints of the path, by their positions
safe_path(start, goal) ==
    [waypoints |->
        [k \in 1..5 |->
            <<interpolate(start.position[1], goal.position[1], k - 1),
              interpolate(start.position[2], goal.position[2], k - 1),
              interpolate(start.position[3], goal.position[3], k - 1)>>]]

validate_path(request) ==
    Emit("ObstacleAvoidance", Recv("goal_obstacle_req"),
         <<create_log("ObstacleAvoidance", "Info",
                      "Validating and adjusting path for obstacles")>>,
         <<Pending("stance_obstacle_req", StanceQuery, NoLog, NoLog),
           Pending("obstacle_goal_resp", safe_path(request.start, request.goal),
                   NoLog, NoLog),
           Pending("behavior_path_obstacle", safe_path(request.start, request.goal),
                   NoLog, NoLog)>>)

ObstacleAvoidance_request ==
    /\ AtSelect("ObstacleAvoidance")
    /\ chan["goal_obstacle_req"] # <<>>
    /\ validate_path(Head(chan["goal_obstacle_req"]))
    /\ UNCHANGED <<lifecycle, logging, timing, motor_cmds, calibration, closed, sinks, tap, no_sender, command_count,
                   motor_received, mission_counter, current_mission,
                   current_stance, state_sends, cmd_idx, sensor_counter,
                   hw_counter, events, clock, current_state,
                   pose_orientation, announced, emergency_stop,
                   latest_sensor_data, validated, states_received,
                   hw_received>>

ObstacleAvoidance_stance ==
    /\ AtSelect("ObstacleAvoidance")
    /\ chan["stance_obstacle_resp"] # <<>>
    /\ chan' = Recv("stance_obstacle_resp")
    /\ log_tx' = <<create_log("ObstacleAvoidance", "Debug", "Received stance config")>>
    /\ UNCHANGED <<lifecycle, logging, timing, motor_cmds, calibration, closed, sinks, tap, sent, no_sender, command_count,
                   motor_received, mission_counter, current_mission,
                   current_stance, out, state_sends, cmd_idx, sensor_counter,
                   hw_counter, events, clock, current_state,
                   pose_orientation, announced, emergency_stop,
                   latest_sensor_data, validated, states_received,
                   hw_received>>

\* ----------------------------------------------------------------- Stance
\* a Query answered with the stance of Stance::new
handle_request_initial(request, req, response_tx) ==
    IF request.type = "Query"
      THEN /\ Emit("Stance", Recv(req), NoLog,
                   <<Pending(response_tx, NormalStance, NoLog, NoLog)>>)
           /\ UNCHANGED current_stance
      ELSE /\ current_stance' = request.stance
           /\ Emit("Stance", Recv(req),
                   <<create_log("Stance", "Info", "Adjusting stance")>>,
                   <<Pending("stance_behavior", request.stance, NoLog, NoLog)>>)

handle_request(request, req, response_tx) ==
    IF request.type = "Query"
      THEN /\ Emit("Stance", Recv(req), NoLog,
                   <<Pending(response_tx, current_stance, NoLog, NoLog)>>)
           /\ UNCHANGED current_stance
      ELSE /\ current_stance' = request.stance
           /\ Emit("Stance", Recv(req),
                   <<create_log("Stance", "Info", "Adjusting stance")>>,
                   <<Pending("stance_behavior", request.stance, NoLog, NoLog)>>)

Stance_obstacle ==
    /\ AtSelect("Stance")
    /\ chan["stance_obstacle_req"] # <<>>
    /\ handle_request(Head(chan["stance_obstacle_req"]),
                      "stance_obstacle_req", "stance_obstacle_resp")
    /\ UNCHANGED <<lifecycle, logging, timing, motor_cmds, calibration, closed, sinks, tap, no_sender, command_count,
                   motor_received, mission_counter, current_mission,
                   state_sends, cmd_idx, sensor_counter, hw_counter, events,
                   clock, current_state, pose_orientation, announced,
                   emergency_stop, latest_sensor_data, validated,
                   states_received, hw_received>>

Stance_goal ==
    /\ AtSelect("Stance")
    /\ chan["stance_goal_req"] # <<>>
    /\ handle_request(Head(chan["stance_goal_req"]),
                      "stance_goal_req", "stance_goal_resp")
    /\ UNCHANGED <<lifecycle, logging, timing, motor_cmds, calibration, closed, sinks, tap, no_sender, command_count,
                   motor_received, mission_counter, current_mission,
                   state_sends, cmd_idx, sensor_counter, hw_counter, events,
                   clock, current_state, pose_orientation, announced,
                   emergency_stop, latest_sensor_data, validated,
                   states_received, hw_received>>

\* ----------------------------------------------------------- OutputManager
\* A holder of a sender of OutputManager's motor input sends a command.
motor_cmd_send_after_drop(motor_cmd) ==
    /\ inject("dummy_motor_cmd", motor_cmd, MaxInject)
    /\ UNCHANGED clock

motor_cmd_send(motor_cmd) ==
    /\ "dummy_motor_cmd" \notin no_sender
    /\ inject("dummy_motor_cmd", motor_cmd, MaxInject)
    /\ UNCHANGED clock

StatusUpdate ==
    [state |-> "ExecutingMission", current_mission |-> "Patrol Mission", battery_level |-> 75]

\* OutputManager::run, motor branch, with send_status_update

\* OutputManager with a timer of its own: it also sends a status when no
\* command has arrived
OutputManager_motor_or_timer ==
    /\ AtSelect("OutputManager")
    /\ IF chan["dummy_motor_cmd"] # <<>>
         THEN /\ Emit("OutputManager", Recv("dummy_motor_cmd"), NoLog,
                      <<Pending("motor_command_hw", Head(chan["dummy_motor_cmd"]), NoLog,
                                <<create_log("OutputManager", "Error",
                                             "Failed to send motor command to hardware")>>)>>
                      \o (IF (command_count + 1) % 5 = 0
                            THEN <<Pending("status_feedback", StatusUpdate, NoLog, NoLog),
                                   Pending("status_comm", StatusUpdate, NoLog, NoLog)>>
                            ELSE <<>>))
              /\ command_count' = command_count + 1
         ELSE /\ Emit("OutputManager", chan, NoLog,
                      <<Pending("status_feedback", StatusUpdate, NoLog, NoLog),
                        Pending("status_comm", StatusUpdate, NoLog, NoLog)>>)
              /\ UNCHANGED command_count
    /\ UNCHANGED <<lifecycle, logging, timing, motor_cmds, calibration, closed, sinks, tap, no_sender, motor_received,
                   mission_counter, current_mission, current_stance, state_sends,
                   cmd_idx, sensor_counter, hw_counter, events,
                   clock, current_state, pose_orientation, announced, emergency_stop,
                   latest_sensor_data, validated, hw_received, states_received>>

OutputManager_motor ==
    /\ AtSelect("OutputManager")
    /\ chan["dummy_motor_cmd"] # <<>>
    /\ Emit("OutputManager", Recv("dummy_motor_cmd"), NoLog,
            <<Pending("motor_command_hw", Head(chan["dummy_motor_cmd"]), NoLog,
                      <<create_log("OutputManager", "Error",
                                   "Failed to send motor command to hardware")>>)>>
            \o (IF (command_count + 1) % 5 = 0
                  THEN <<Pending("status_feedback", StatusUpdate, NoLog, NoLog),
                         Pending("status_comm", StatusUpdate, NoLog, NoLog)>>
                  ELSE <<>>))
    /\ command_count' = command_count + 1
    /\ UNCHANGED <<lifecycle, logging, timing, motor_cmds, calibration, closed, sinks, tap, no_sender, motor_received,
                   mission_counter, current_mission, current_stance, state_sends,
                   cmd_idx, sensor_counter, hw_counter, events,
                   clock, current_state, pose_orientation, announced, emergency_stop,
                   latest_sensor_data, validated, hw_received, states_received>>

\* HardwareInterface::run, motor branch
HardwareInterface_motor ==
    /\ AtSelect("HardwareInterface")
    /\ chan["motor_command_hw"] # <<>>
    /\ chan' = Recv("motor_command_hw")
    /\ motor_received' = Append(motor_received, Head(chan["motor_command_hw"]))
    /\ log_tx' = <<create_log("HardwareInterface", "Debug", "Motor command")>>
    /\ UNCHANGED <<lifecycle, logging, motor_cmds, calibration, closed, sinks, tap, sent, no_sender, command_count,
                   mission_counter, current_mission, current_stance, state_sends, out,
                   cmd_idx, sensor_counter, hw_counter, events,
                   clock, current_state, pose_orientation, announced, emergency_stop,
                   latest_sensor_data, validated, hw_received, states_received>>
    /\ sleep_left' = Loop("HardwareInterface")
    /\ UNCHANGED <<silence, mission_sent>>

\* OutputManager and the two command inputs of HardwareInterface.  The sender
\* of OutputManager's motor input is dropped, as initialize_and_run does, or
\* held by a driver.
InitOut ==
    \E dropped_senders \in {DroppedSenders, {}} :
        InitWith({"state"}, {"status_feedback", "status_comm"}, {}, dropped_senders)

NextOut ==
    \/ \E motor_cmd \in MotorCommands : motor_cmd_send(motor_cmd)
    \/ OutputManager_motor
    \/ HardwareInterface_motor
    \/ \E behavior \in BehaviorKinds : inject_behavior(behavior, PathPriority)
    \/ \E sensor_data \in HarnessFrames : inject_sensor(sensor_data)
    \/ SafetyController_behavior
    \/ SafetyController_sensor
    \/ HardwareInterface_behavior
    \/ \E m \in {"OutputManager", "SafetyController"} : Send(m)

SpecOut == InitOut /\ [][NextOut]_vars

\* ------------------------------------------------------ the planning branch
\* TaskMissionManager, GoalPlanning, ObstacleAvoidance, Stance and Behaviour as
\* initialize_and_run wires them, with InputManager and StateManager reduced
\* to the commands and modes they deliver and SafetyController to a receiver
\* that takes every command.
PlanChannels ==
    {"im_task", "state_task", "goal", "stance_goal_req", "stance_goal_resp",
     "goal_obstacle_req", "stance_obstacle_req", "stance_obstacle_resp",
     "obstacle_goal_resp", "behavior_path_obstacle", "behavior_path_goal",
     "behavior_safety"}

\* the commands that make at most one Goal each, and one that makes none
PlanCommands ==
    {m \in MissionCommands : m.cmd \in {"GoToWaypoint", "ReturnHome"}}
      \cup {[type |-> "ManualControl", cmd |-> "MoveForward"]}

\* InputManager forwards a command to TaskMissionManager.
task_command_send(command, max) ==
    /\ inject("im_task", command, max)
    /\ UNCHANGED clock

InitPlan == InitWith({"state"}, {"behavior_safety"}, PlanChannels, DroppedSenders)

NextPlan ==
    \/ \E command \in PlanCommands : task_command_send(command, MaxInject)
    \/ TaskMissionManager_command
    \/ GoalPlanning_goal
    \/ GoalPlanning_path
    \/ GoalPlanning_stance
    \/ ObstacleAvoidance_request
    \/ ObstacleAvoidance_stance
    \/ Stance_obstacle
    \/ Stance_goal
    \/ \E ch \in {"behavior_path_goal", "behavior_path_obstacle"} : Behaviour_path(ch)
    \/ \E m \in {"TaskMissionManager", "GoalPlanning", "ObstacleAvoidance", "Stance"} :
          Send(m)

SpecPlan == InitPlan /\ [][NextPlan]_vars

\* ------------------------------------------------------- the mission path
\* A command from the operator to the command it makes Behaviour emit:
\* InputManager, TaskMissionManager, GoalPlanning, ObstacleAvoidance, Stance
\* and Behaviour as initialize_and_run wires them, with StateManager and
\* SafetyController reduced to receivers that take every message.
OperatorCommands ==
    {m \in MissionCommands : m.cmd \in {"GoToWaypoint", "ReturnHome"}}
      \cup {[type |-> "ManualControl", cmd |-> "MoveForward"]}

\* DirectUserInput or UserInstructions delivers a command to InputManager.
operator_command(command) ==
    /\ inject("user_command", command, MaxMissions)
    /\ UNCHANGED clock

InitMission ==
    InitWith({"state"}, {"im_state_cmd", "behavior_safety"},
             PlanChannels \cup {"user_command"}, DroppedSenders)

NextMission ==
    \/ \E command \in OperatorCommands : operator_command(command)
    \/ handle_user_command
    \/ TaskMissionManager_command
    \/ GoalPlanning_goal
    \/ GoalPlanning_path
    \/ GoalPlanning_stance
    \/ ObstacleAvoidance_request
    \/ ObstacleAvoidance_stance
    \/ Stance_obstacle
    \/ Stance_goal
    \/ \E ch \in {"behavior_path_goal", "behavior_path_obstacle"} : Behaviour_path(ch)

SpecMission == InitMission /\ [][NextMission]_vars

\* the steps of the spawned tasks
MissionSteps ==
    \/ handle_user_command
    \/ TaskMissionManager_command
    \/ GoalPlanning_goal
    \/ GoalPlanning_path
    \/ GoalPlanning_stance
    \/ ObstacleAvoidance_request
    \/ ObstacleAvoidance_stance
    \/ Stance_obstacle
    \/ Stance_goal
    \/ \E ch \in {"behavior_path_goal", "behavior_path_obstacle"} : Behaviour_path(ch)

\* tokio keeps running tasks that are ready: while some task has a message to
\* take, some task takes one.  No shutdown is broadcast.
FairMission == WF_vars(MissionSteps)

SpecMissionFair == SpecMission /\ FairMission

\* ------------------------------------------- from the operator to the motors
\* The mission path with StateManager, SafetyController and the behaviour input
\* of HardwareInterface: every task between a command of the operator and the
\* motors, with SensorArray reduced to the frames it sends to SafetyController.
DriveCommands ==
    {[type |-> "ManualControl", cmd |-> "MoveForward"],
     [type |-> "MissionCommand", cmd |-> "GoToWaypoint", lat |-> WP1.lat, lon |-> WP1.lon]}

\* front distance 2.5 m, battery 0.85
ClearFrame ==
    [distance_sensors |-> <<250, 300>>, battery_level |-> 85, orientation |-> Identity]

\* SensorArray sends a frame to SafetyController.
safety_frame_send(sensor_data) ==
    /\ inject("sensor_data_safety", sensor_data, MaxMissions)
    /\ UNCHANGED clock

InitDrive == InitWith({"state"}, {}, {"user_command", "behavior_safety"}, DroppedSenders)

NextDrive ==
    \/ \E command \in DriveCommands : operator_command(command)
    \/ safety_frame_send(ClearFrame)
    \/ handle_user_command
    \/ StateManager_command
    \/ TaskMissionManager_command
    \/ TaskMissionManager_state
    \/ GoalPlanning_goal
    \/ GoalPlanning_path
    \/ GoalPlanning_stance
    \/ ObstacleAvoidance_request
    \/ ObstacleAvoidance_stance
    \/ Stance_obstacle
    \/ Stance_goal
    \/ \E ch \in {"behavior_path_goal", "behavior_path_obstacle"} : Behaviour_path(ch)
    \/ SafetyController_behavior
    \/ SafetyController_sensor
    \/ SafetyController_state
    \/ HardwareInterface_behavior

SpecDrive == InitDrive /\ [][NextDrive]_vars

\* the steps of the spawned tasks
DriveSteps ==
    \/ handle_user_command
    \/ StateManager_command
    \/ TaskMissionManager_command
    \/ TaskMissionManager_state
    \/ GoalPlanning_goal
    \/ GoalPlanning_path
    \/ GoalPlanning_stance
    \/ ObstacleAvoidance_request
    \/ ObstacleAvoidance_stance
    \/ Stance_obstacle
    \/ Stance_goal
    \/ \E ch \in {"behavior_path_goal", "behavior_path_obstacle"} : Behaviour_path(ch)
    \/ SafetyController_behavior
    \/ SafetyController_sensor
    \/ SafetyController_state
    \/ HardwareInterface_behavior

\* tokio keeps running tasks that are ready, and no shutdown is broadcast.
FairDrive == WF_vars(DriveSteps)

SpecDriveFair == SpecDrive /\ FairDrive

\* ------------------------------------------------------------ Stance alone
\* Stance with queries and adjustments on both of its request inputs, and the
\* receivers of its three outputs.
StanceRequests ==
    {StanceQuery,
     StanceAdjust([stance_type |-> "LowProfile", stability |-> 80]),
     StanceAdjust([stance_type |-> "HighClearance", stability |-> 60])}

\* ObstacleAvoidance or GoalPlanning sends a request to Stance.
stance_request_send(ch, request) ==
    /\ inject(ch, request, MaxInject)
    /\ UNCHANGED clock

StanceChannels ==
    {"stance_obstacle_req", "stance_goal_req", "stance_obstacle_resp",
     "stance_goal_resp", "stance_behavior"}

InitStance == InitWith({"state"}, {"behavior_safety"}, StanceChannels, DroppedSenders)

NextStance ==
    \/ \E ch \in {"stance_obstacle_req", "stance_goal_req"} :
          \E request \in StanceRequests : stance_request_send(ch, request)
    \/ Stance_obstacle
    \/ Stance_goal
    \/ ObstacleAvoidance_stance
    \/ GoalPlanning_stance
    \/ Behaviour_stance
    \/ Send("Stance")

SpecStance == InitStance /\ [][NextStance]_vars

\* -------------------------------------------------- TaskMissionManager alone
\* TaskMissionManager with every kind of command and the modes StateManager
\* announces on its inputs, and GoalPlanning reduced to a receiver that takes
\* every Goal.
TaskCommands ==
    MissionCommands
      \cup {[type |-> "ManualControl", cmd |-> "MoveForward"],
            [type |-> "SystemCommand", cmd |-> "Pause"]}

\* StateManager announces a mode to TaskMissionManager.
task_state_send(state) ==
    /\ inject("state_task", state, MaxInject)
    /\ UNCHANGED clock

InitTask == InitWith({"state"}, {"goal"}, {"im_task", "state_task", "goal"}, DroppedSenders)

NextTask ==
    \/ \E command \in TaskCommands : task_command_send(command, MaxInject)
    \/ \E state \in {"Idle", "ManualControl"} : task_state_send(state)
    \/ TaskMissionManager_command
    \/ TaskMissionManager_state

SpecTask == InitTask /\ [][NextTask]_vars


\* ------------------------------------- the modes StateManager announces
\* SafetyController and TaskMissionManager with every mode on their state
\* inputs, between commands on their command inputs; GoalPlanning is reduced
\* to a receiver that takes every Goal.
ModeBehaviors ==
    {[type |-> "MoveTowards", target |-> <<4, 4, 0>>, speed |-> PathSpeed],
     [type |-> "AdjustStance", stance |-> [stance_type |-> "LowProfile", stability |-> 80]]}

\* front distance 0.49 m
ModeFrames ==
    {[distance_sensors |-> <<49, 300>>, battery_level |-> 85, orientation |-> Identity]}

\* the modes put on TaskMissionManager's state input
TaskModes == {"Paused", "EmergencyStop"}

ModeCommands ==
    {[type |-> "MissionCommand", cmd |-> "GoToWaypoint", lat |-> WP1.lat, lon |-> WP1.lon],
     [type |-> "ManualControl", cmd |-> "MoveForward"]}

\* StateManager announces a mode on one of its outputs.
mode_send(ch, state) ==
    /\ inject(ch, state, MaxModes)
    /\ UNCHANGED clock

\* Behaviour sends a command to SafetyController.
mode_behavior_send(behavior) ==
    /\ inject("behavior_safety",
              [timestamp |-> clock, behavior |-> behavior, priority |-> PathPriority],
              MaxModes)
    /\ clock' = clock + 1

InitMode ==
    InitWith({"state"}, {"goal"}, {"im_task", "state_task", "goal"}, DroppedSenders)

NextMode ==
    \/ \E state \in RobotStates : mode_send("state_safety", state)
    \/ \E state \in TaskModes : mode_send("state_task", state)
    \/ \E behavior \in ModeBehaviors : mode_behavior_send(behavior)
    \/ \E sensor_data \in ModeFrames : inject("sensor_data_safety", sensor_data, MaxModes)
                                          /\ UNCHANGED clock
    \/ \E command \in ModeCommands : task_command_send(command, MaxModes)
    \/ SafetyController_behavior
    \/ SafetyController_sensor
    \/ SafetyController_state
    \/ HardwareInterface_behavior
    \/ TaskMissionManager_command
    \/ TaskMissionManager_state

SpecMode == InitMode /\ [][NextMode]_vars


\* ---------------------------------------------------------- Behaviour alone
\* Behaviour with paths on both of its path inputs and stances on its stance
\* input, SafetyController behind a full-size queue and HardwareInterface.
BehavePaths ==
    {[waypoints |-> <<>>],
     [waypoints |-> <<<<3, 4, 0>>>>],
     [waypoints |-> <<Origin, <<1, 1, 0>>, <<2, 2, 0>>>>]}

BehaveChannels ==
    {"behavior_path_goal", "behavior_path_obstacle", "stance_behavior", "behavior_safety"}

\* GoalPlanning, ObstacleAvoidance or Stance sends Behaviour a message.
behave_send(ch, msg) ==
    /\ inject(ch, msg, MaxInject)
    /\ UNCHANGED clock

InitBehave == InitWith({"state"}, Unmodelled, BehaveChannels, DroppedSenders)

NextBehave ==
    \/ \E ch \in {"behavior_path_goal", "behavior_path_obstacle"} :
          \E path \in BehavePaths : behave_send(ch, path)
    \/ \E stance \in StanceConfigs : behave_send("stance_behavior", stance)
    \/ \E ch \in {"behavior_path_goal", "behavior_path_obstacle"} : Behaviour_path(ch)
    \/ Behaviour_stance
    \/ Send("Behaviour")
    \/ SafetyController_behavior
    \/ HardwareInterface_behavior

SpecBehave == InitBehave /\ [][NextBehave]_vars


\* ------------------------------------------------- the planning cycles
\* GoalPlanning, ObstacleAvoidance and Stance as initialize_and_run wires
\* them, under a mission of many waypoints: TaskMissionManager is reduced to
\* the Goals it sends, Behaviour to a receiver that takes every path.
CycleGoal ==
    [target_pose |-> [position |-> <<16, 64, 0>>, orientation |-> Identity],
     goal_type |-> "ReachPosition"]

\* TaskMissionManager::execute_mission sends the Goal of the next task.
goal_send ==
    /\ inject("goal", CycleGoal, MaxGoals)
    /\ UNCHANGED clock

CycleTasks == {"GoalPlanning", "ObstacleAvoidance", "Stance"}

InitCycle ==
    InitWith({"state"}, {"behavior_path_goal", "behavior_path_obstacle", "stance_behavior"},
             {}, DroppedSenders)

NextCycle ==
    \/ goal_send
    \/ GoalPlanning_goal
    \/ GoalPlanning_path
    \/ GoalPlanning_stance
    \/ ObstacleAvoidance_request
    \/ ObstacleAvoidance_stance
    \/ Stance_obstacle
    \/ Stance_goal
    \/ \E m \in CycleTasks : Send(m)

SpecCycle == InitCycle /\ [][NextCycle]_vars

\* ------------------------------------------------------- the wired system
\* The tasks spawned by initialize_and_run, with the planning branch upstream
\* of Behaviour reduced to the paths and stances it delivers.
Next ==
    \/ \E command \in UserCommands : user_command_send(command)
    \/ \E sensor_data \in SensorFrames : SensorArray_tick(sensor_data)
    \/ HardwareInterface_sensor
    \/ HardwareInterface_status
    \/ HardwareInterface_behavior
    \/ handle_sensor_data
    \/ handle_user_command
    \/ handle_hardware_status
    \/ StateManager_sensor
    \/ StateManager_command
    \/ \E ch \in {"behavior_path_goal", "behavior_path_obstacle"} :
          \E path \in Paths : path_send(ch, path)
    \/ \E new_stance \in StanceConfigs : stance_send(new_stance)
    \/ \E ch \in {"behavior_path_goal", "behavior_path_obstacle"} : Behaviour_path(ch)
    \/ Behaviour_stance
    \/ SafetyController_behavior
    \/ SafetyController_sensor
    \/ SafetyController_state
    \/ \E m \in Modules : Send(m)

Spec == Init /\ [][Next]_vars

\* The wired system with InputManager's status input also fed every value of
\* HardwareStatus.health: generate_hardware_status itself only ever reports
\* Healthy, so the Warning and Critical arms of handle_hardware_status are
\* driven from here.
inject_status(health) ==
    /\ inject("hw_status",
              [generate_hardware_status(hw_counter) EXCEPT !.health = health],
              MaxEvents)
    /\ UNCHANGED clock

NextHealth ==
    \/ Next
    \/ \E health \in HealthStatuses : inject_status(health)

SpecHealth == Init /\ [][NextHealth]_vars

\* The wired system with the traffic of the sensor path and of InputManager
\* recorded.
InputChannels ==
    {"sensor_data_hw", "sensor_data_safety", "sensor_data_im", "user_command",
     "hw_status", "im_env", "im_state_sensor", "im_state_cmd", "im_task"}

InitTap == InitWith({"state"}, Unmodelled, InputChannels, DroppedSenders)

SpecTap == InitTap /\ [][Next]_vars

\* ------------------------------------------------------------- shutdown
\* The receivers each task owns (its inbound queues).
Receivers(t) ==
    CASE t = "HardwareInterface" -> {"sensor_data_hw", "behavior_hw", "motor_command_hw"}
      [] t = "InputManager" -> {"sensor_data_im", "user_command", "hw_status"}
      [] t = "EnvironmentUnderstanding" -> {"im_env"}
      [] t = "StateManager" -> {"im_state_sensor", "im_state_cmd"}
      [] t = "Stance" -> {"stance_obstacle_req", "stance_goal_req"}
      [] t = "TaskMissionManager" -> {"im_task", "state_task"}
      [] t = "GoalPlanning" -> {"goal", "stance_goal_resp", "obstacle_goal_resp"}
      [] t = "ObstacleAvoidance" ->
           {"env_state", "stance_obstacle_resp", "goal_obstacle_req"}
      [] t = "Behaviour" ->
           {"behavior_path_goal", "behavior_path_obstacle", "stance_behavior"}
      [] t = "SafetyController" ->
           {"behavior_safety", "sensor_data_safety", "state_safety"}
      [] t = "OutputManager" -> {"dummy_motor_cmd"}
      [] t = "UserFeedback" -> {"status_feedback"}
      [] t = "CommunicationModule" -> {"status_comm", "user_feedback"}
      [] t = "UserInstructions" -> {"comm_user"}
      [] t = "Logger" -> {"log"}
      [] t = "ModelCalibrationStorage" -> {"calib_req"}
      [] OTHER -> {}

\* The senders each task holds.
Senders(t) ==
    CASE t = "SensorArray" -> {"sensor_data_hw", "sensor_data_safety"}
      [] t \in {"DirectUserInput", "UserInstructions"} -> {"user_command"}
      [] t = "HardwareInterface" -> {"sensor_data_im", "hw_status"}
      [] t = "InputManager" -> {"im_env", "im_state_sensor", "im_state_cmd", "im_task"}
      [] t = "EnvironmentUnderstanding" -> {"env_state"}
      [] t = "StateManager" -> {"state", "state_safety", "state_task"}
      [] t = "Stance" -> {"stance_obstacle_resp", "stance_goal_resp", "stance_behavior"}
      [] t = "TaskMissionManager" -> {"goal"}
      [] t = "GoalPlanning" ->
           {"stance_goal_req", "goal_obstacle_req", "behavior_path_goal"}
      [] t = "ObstacleAvoidance" ->
           {"stance_obstacle_req", "obstacle_goal_resp", "behavior_path_obstacle"}
      [] t = "Behaviour" -> {"behavior_safety"}
      [] t = "SafetyController" -> {"behavior_hw"}
      [] t = "OutputManager" -> {"motor_command_hw", "status_feedback", "status_comm"}
      [] t = "UserFeedback" -> {"user_feedback"}
      [] t = "CommunicationModule" -> {"comm_user"}
      [] t = "ModelCalibrationStorage" -> {"calib_resp"}
      [] OTHER -> {}

\* shutdown_tx.send(()): every live subscription receives one value.  The
\* sender is the keystroke reader of the hosting process; it sends once.
shutdown_broadcast ==
    /\ \A t \in Tasks : pc[t] = "select" /\ shutdown_rx[t] = 0
    /\ shutdown_rx' = [t \in Tasks |-> shutdown_rx[t] + 1]
    /\ log_tx' = NoLog
    /\ UNCHANGED <<pc, logging, timing, motor_cmds, calibration, chan, closed, sinks, tap, sent,
                   no_sender, command_count, motor_received, mission_counter,
                   current_mission, current_stance, out, state_sends, cmd_idx,
                   sensor_counter, hw_counter, events, clock, current_state,
                   pose_orientation, announced, emergency_stop, latest_sensor_data,
                   validated, states_received, hw_received>>

\* the task ends without the terminal record
shutdown_recv_silent(t) ==
    /\ AtSelect(t)
    /\ shutdown_rx[t] > 0
    /\ shutdown_rx' = [shutdown_rx EXCEPT ![t] = @ - 1]
    /\ pc' = [pc EXCEPT ![t] = "done"]
    /\ log_tx' = <<create_log(t, "Info", "Shutdown signal received")>>
    /\ closed' = closed \cup Receivers(t)
    /\ no_sender' = no_sender \cup
         {c \in Senders(t) : \A u \in Tasks \ {t} : c \in Senders(u) => pc[u] = "done"}
    /\ UNCHANGED <<logging, timing, motor_cmds, calibration, chan, sinks, tap, sent,
                   command_count, motor_received, mission_counter,
                   current_mission, current_stance, out, state_sends, cmd_idx,
                   sensor_counter, hw_counter, events, clock, current_state,
                   pose_orientation, announced, emergency_stop, latest_sensor_data,
                   validated, states_received, hw_received>>

\* The shutdown branch of the select! of task t, the break, the terminal
\* record, and the end of run: self is dropped, and with it the task's
\* receivers (their queues close) and senders.
shutdown_recv(t) ==
    /\ AtSelect(t)
    /\ shutdown_rx[t] > 0
    /\ shutdown_rx' = [shutdown_rx EXCEPT ![t] = @ - 1]
    /\ pc' = [pc EXCEPT ![t] = "done"]
    /\ log_tx' = <<create_log(t, "Info", "Shutdown signal received"),
                   create_log(t, "Info", "Stopped")>>
    /\ closed' = closed \cup Receivers(t)
    /\ no_sender' = no_sender \cup
         {c \in Senders(t) : \A u \in Tasks \ {t} : c \in Senders(u) => pc[u] = "done"}
    /\ UNCHANGED <<logging, timing, motor_cmds, calibration, chan, sinks, tap, sent,
                   command_count, motor_received, mission_counter,
                   current_mission, current_stance, out, state_sends, cmd_idx,
                   sensor_counter, hw_counter, events, clock, current_state,
                   pose_orientation, announced, emergency_stop, latest_sensor_data,
                   validated, states_received, hw_received>>

\* The tasks of the sensor path, and OutputManager, with the shutdown
\* broadcast: SensorArray's frames go to SafetyController and, through
\* HardwareInterface, to InputManager.
DownTasks ==
    {"SensorArray", "HardwareInterface", "InputManager", "SafetyController",
     "OutputManager"}

InitDown ==
    InitWith({"state"}, Unmodelled \cup {"im_state_sensor"}, {}, DroppedSenders)

NextDown ==
    \/ \E sensor_data \in SensorFrames : SensorArray_tick(sensor_data)
    \/ HardwareInterface_sensor
    \/ handle_sensor_data
    \/ SafetyController_sensor
    \/ \E m \in DownTasks : Send(m)
    \/ shutdown_broadcast
    \/ \E t \in DownTasks : shutdown_recv(t)

SpecDown == InitDown /\ [][NextDown]_vars

\* Every task is polled again and again and every ready branch of a select!
\* is taken sooner or later; nothing obliges the operator to press the key.
DownSteps ==
    \/ \E sensor_data \in SensorFrames : SensorArray_tick(sensor_data)
    \/ HardwareInterface_sensor
    \/ handle_sensor_data
    \/ SafetyController_sensor
    \/ \E m \in DownTasks : Send(m)
    \/ \E t \in DownTasks : shutdown_recv(t)

FairDown == WF_vars(DownSteps)

SpecDownFair == SpecDown /\ FairDown

\* ------------------------------------------------------- the status path
\* UserFeedback::forward_to_comm: the message made from a status
Feedback(status) ==
    [message |-> <<"State", status.state, "Battery", status.battery_level>>,
     feedback_type |-> "Status"]

\* UserFeedback::run, status branch: display_status, then forward_to_comm
UserFeedback_status ==
    /\ AtSelect("UserFeedback")
    /\ chan["status_feedback"] # <<>>
    /\ Emit("UserFeedback", Recv("status_feedback"),
            <<create_log("UserFeedback", "Info", "Status")>>,
            <<Pending("user_feedback", Feedback(Head(chan["status_feedback"])),
                      NoLog, NoLog)>>)
    /\ UNCHANGED <<lifecycle, logging, motor_cmds, calibration, closed, sinks, tap, no_sender,
                   command_count, motor_received, mission_counter, current_mission,
                   current_stance, state_sends, cmd_idx, sensor_counter, hw_counter,
                   events, clock, current_state, pose_orientation, announced,
                   emergency_stop, latest_sensor_data, validated, hw_received,
                   states_received>>
    /\ UNCHANGED timing

\* CommunicationModule::run, status branch
CommunicationModule_status ==
    /\ AtSelect("CommunicationModule")
    /\ chan["status_comm"] # <<>>
    /\ Emit("CommunicationModule", Recv("status_comm"),
            <<create_log("CommunicationModule", "Debug", "Broadcasting status update")>>,
            <<>>)
    /\ UNCHANGED <<lifecycle, logging, motor_cmds, calibration, closed, sinks, tap, no_sender,
                   command_count, motor_received, mission_counter, current_mission,
                   current_stance, state_sends, cmd_idx, sensor_counter, hw_counter,
                   events, clock, current_state, pose_orientation, announced,
                   emergency_stop, latest_sensor_data, validated, hw_received,
                   states_received>>
    /\ UNCHANGED timing

\* CommunicationModule::run, feedback branch: the message goes to
\* UserInstructions, then the record is logged
handle_feedback ==
    /\ AtSelect("CommunicationModule")
    /\ chan["user_feedback"] # <<>>
    /\ Emit("CommunicationModule", Recv("user_feedback"), NoLog,
            <<Pending("comm_user", Head(chan["user_feedback"]).message,
                      <<create_log("CommunicationModule", "Debug", "Relayed feedback")>>,
                      <<create_log("CommunicationModule", "Debug", "Relayed feedback")>>)>>)
    /\ UNCHANGED <<lifecycle, logging, motor_cmds, calibration, closed, sinks, tap, no_sender,
                   command_count, motor_received, mission_counter, current_mission,
                   current_stance, state_sends, cmd_idx, sensor_counter, hw_counter,
                   events, clock, current_state, pose_orientation, announced,
                   emergency_stop, latest_sensor_data, validated, hw_received,
                   states_received>>
    /\ UNCHANGED timing

\* UserInstructions::run, feedback branch
UserInstructions_feedback ==
    /\ AtSelect("UserInstructions")
    /\ chan["comm_user"] # <<>>
    /\ Emit("UserInstructions", Recv("comm_user"),
            <<create_log("UserInstructions", "Info", "Received feedback")>>, <<>>)
    /\ UNCHANGED <<lifecycle, logging, motor_cmds, calibration, closed, sinks, tap, no_sender,
                   command_count, motor_received, mission_counter, current_mission,
                   current_stance, state_sends, cmd_idx, sensor_counter, hw_counter,
                   events, clock, current_state, pose_orientation, announced,
                   emergency_stop, latest_sensor_data, validated, hw_received,
                   states_received>>
    /\ UNCHANGED timing

\* the Patrol of UserInstructions' script
PatrolMission ==
    [type |-> "MissionCommand", cmd |-> "Patrol",
     waypoints |-> <<Waypoint(377749000, -1224194000),
                     Waypoint(377750000, -1224195000),
                     Waypoint(377751000, -1224196000)>>,
     loops |-> 2]

\* UserInstructions::run, the branch of the 5 s sleep, enabled until the
\* mission was sent (the sleep is not represented: it may end at any moment)
UserInstructions_mission ==
    /\ AtSelect("UserInstructions")
    /\ ~mission_sent
    /\ Emit("UserInstructions", chan,
            <<create_log("UserInstructions", "Info", "Sending patrol mission")>>,
            <<Pending("user_command", PatrolMission, NoLog,
                      <<create_log("UserInstructions", "Error",
                                   "Failed to send mission command")>>)>>)
    /\ mission_sent' = TRUE
    /\ UNCHANGED <<lifecycle, logging, motor_cmds, calibration, closed, sinks, tap, no_sender,
                   command_count, motor_received, mission_counter, current_mission,
                   current_stance, state_sends, cmd_idx, sensor_counter, hw_counter,
                   events, clock, current_state, pose_orientation, announced,
                   emergency_stop, latest_sensor_data, validated, hw_received,
                   states_received>>
    /\ UNCHANGED <<sleep_left, silence>>

\* a driver that holds the sender of OutputManager's motor input, where it
\* was not dropped
motor_driver_send(motor_cmd) ==
    /\ "dummy_motor_cmd" \notin no_sender
    /\ inject("dummy_motor_cmd", motor_cmd, MaxMotorCmds)
    /\ UNCHANGED clock

StatusTasks == {"OutputManager", "UserFeedback", "CommunicationModule", "UserInstructions"}

StatusChannels == {"status_feedback", "status_comm", "user_feedback", "comm_user"}

\* OutputManager, UserFeedback, CommunicationModule and UserInstructions as
\* initialize_and_run wires them, with the sender of OutputManager's motor
\* input dropped, as there, or held by a driver; InputManager is reduced to a
\* receiver that takes every command.
InitFeed ==
    \E dropped_senders \in {DroppedSenders, {}} :
        InitWith({"state"}, {"user_command"}, StatusChannels, dropped_senders)

NextFeed ==
    \/ \E motor_cmd \in MotorCommands : motor_driver_send(motor_cmd)
    \/ OutputManager_motor
    \/ Send("OutputManager")
    \/ HardwareInterface_motor
    \/ UserFeedback_status
    \/ CommunicationModule_status
    \/ handle_feedback
    \/ UserInstructions_feedback
    \/ UserInstructions_mission
    \/ shutdown_broadcast
    \/ \E t \in StatusTasks : shutdown_recv(t)

SpecFeed == InitFeed /\ [][NextFeed]_vars

\* --------------------------------------------------------------- Logger
LogLevels == <<"Debug", "Info", "Warn", "Error">>

\* the order of LogLevel (derive(PartialOrd): the order of the variants)
LevelRank(level) == CHOOSE i \in 1..Len(LogLevels) : LogLevels[i] = level

Publish(entry) == [op |-> "publish", entry |-> entry]
Write(entry) == [op |-> "write", entry |-> entry]
Finish == [op |-> "finish", entry |-> "footer"]
\* eprintln!: what failed, and for which record
Failed(what, entry) == [op |-> what, entry |-> entry]

\* the record goes to the file before it goes to the stream
log_entry_file_first(entry, build_ok, add_ok, write_ok) ==
    LET filed == IF logger.mcap_writer THEN Append(io, Write(entry)) ELSE io
    IN [logger |-> [logger EXCEPT !.ws_channels = @ \cup {entry.module},
                                  !.module_channels = @ \cup {entry.module},
                                  !.message_count = @ + 1],
        io |-> IF logger.foxglove_context THEN Append(filed, Publish(entry)) ELSE filed]

\* the record is written to the file twice
log_entry_twice(entry, build_ok, add_ok, write_ok) ==
    LET streamed == IF logger.foxglove_context THEN Append(io, Publish(entry)) ELSE io
    IN [logger |-> [logger EXCEPT !.ws_channels = @ \cup {entry.module},
                                  !.module_channels = @ \cup {entry.module},
                                  !.message_count = @ + 1],
        io |-> IF logger.mcap_writer
                 THEN streamed \o <<Write(entry), Write(entry)>>
                 ELSE streamed]

\* log_entry: the stream first, then the file.  build_ok, add_ok and write_ok
\* are the outcomes of build_raw, add_channel and write_to_known_channel.
\* Either failure to create a channel returns from log_entry at once.
log_entry(entry, build_ok, add_ok, write_ok) ==
    LET module == entry.module
        counted(lg) == [lg EXCEPT !.message_count = @ + 1]
        file(lg, ops) ==
            IF ~lg.mcap_writer THEN [logger |-> counted(lg), io |-> ops]
            ELSE IF module \notin lg.module_channels /\ ~add_ok
              THEN [logger |-> lg,
                    io |-> Append(ops, Failed("Failed to create MCAP channel", entry))]
            ELSE [logger |-> counted([lg EXCEPT !.module_channels = @ \cup {module}]),
                  io |-> IF write_ok
                           THEN Append(ops, Write(entry))
                           ELSE Append(ops, Failed("Error writing to MCAP", entry))]
    IN IF ~logger.foxglove_context THEN file(logger, io)
       ELSE IF module \notin logger.ws_channels /\ ~build_ok
         THEN [logger |-> logger,
               io |-> Append(io, Failed("Failed to create WebSocket channel", entry))]
       ELSE file([logger EXCEPT !.ws_channels = @ \cup {module}],
                 Append(io, Publish(entry)))

\* The log branch of the Logger's select!: the record is taken and dispatched.
Logger_entry ==
    /\ pc["Logger"] = "select"
    /\ chan["log"] # <<>>
    /\ chan' = Recv("log")
    /\ \E build_ok, add_ok, write_ok \in BOOLEAN :
         LET entry == Head(chan["log"])
             r == IF LevelRank(entry.level) >= LevelRank(logger.min_level)
                    THEN log_entry(entry, build_ok, add_ok, write_ok)
                    ELSE [logger |-> logger, io |-> io]
         IN logger' = r.logger /\ io' = r.io
    /\ log_tx' = NoLog
    /\ UNCHANGED <<lifecycle, timing, motor_cmds, calibration, closed, sinks, tap, sent,
                   no_sender, command_count, motor_received, mission_counter,
                   current_mission, current_stance, out, state_sends, cmd_idx,
                   sensor_counter, hw_counter, events, clock, current_state,
                   pose_orientation, announced, emergency_stop, latest_sensor_data,
                   validated, states_received, hw_received>>

\* the writer is finished where it is, not taken out of self
finish_in_place(st) ==
    IF st.logger.mcap_writer
      THEN [logger |-> st.logger, io |-> Append(st.io, Finish)]
      ELSE st

\* if let Some(mut writer) = self.mcap_writer.take() { writer.finish() }
finish(st) ==
    IF st.logger.mcap_writer
      THEN [logger |-> [st.logger EXCEPT !.mcap_writer = FALSE],
            io |-> Append(st.io, Finish)]
      ELSE st

\* The shutdown branch of the Logger's select!, the finalization of the file
\* in run, and the end of run, where self is dropped: Drop finalizes the
\* file if the writer is still there.
Logger_shutdown ==
    /\ pc["Logger"] = "select"
    /\ shutdown_rx["Logger"] > 0
    /\ shutdown_rx' = [shutdown_rx EXCEPT !["Logger"] = @ - 1]
    /\ pc' = [pc EXCEPT !["Logger"] = "done"]
    /\ closed' = closed \cup Receivers("Logger")
    /\ LET dropped == finish(finish([logger |-> logger, io |-> io]))
       IN logger' = dropped.logger /\ io' = dropped.io
    /\ log_tx' = NoLog
    /\ UNCHANGED <<timing, motor_cmds, calibration, chan, sinks, tap, sent,
                   no_sender, command_count, motor_received, mission_counter,
                   current_mission, current_stance, out, state_sends, cmd_idx,
                   sensor_counter, hw_counter, events, clock, current_state,
                   pose_orientation, announced, emergency_stop, latest_sensor_data,
                   validated, states_received, hw_received>>

\* The modules whose records are followed, and the levels of their records.
LogModules == {"SensorArray", "Behaviour"}
LogRecordLevels == {"Debug", "Error"}

\* log_tx.send(create_log(module, level, message)).await in a module: the
\* record enters the log channel when there is room.  The message carries the
\* number of the record.  (With the Logger gone the send fails and nothing
\* is queued.)
log_send(module, level) ==
    /\ "log" \notin closed
    /\ inject("log", create_log(module, level, events + 1), MaxInject)
    /\ UNCHANGED clock

\* With or without the file, with or without the live stream.
InitLog ==
    /\ InitData({"state"}, Unmodelled, {"log"}, DroppedSenders)
    /\ InitTasks
    /\ \E writer, context \in BOOLEAN : InitLogger(writer, context)
    /\ InitTimers({})

NextLog ==
    \/ \E module \in LogModules, level \in LogRecordLevels : log_send(module, level)
    \/ Logger_entry
    \/ shutdown_broadcast
    \/ Logger_shutdown

SpecLog == InitLog /\ [][NextLog]_vars

\* ------------------------------------------------------- the status path
\* HardwareInterface's status tick and InputManager, which handles the
\* HardwareStatus messages.
status_tick ==
    /\ hw_counter < MaxStatus
    /\ HardwareInterface_period
    /\ UNCHANGED events

InitStatus == InitWith({"state"}, Unmodelled, {"hw_status"}, DroppedSenders)

NextStatus ==
    \/ status_tick
    \/ handle_hardware_status
    \/ Send("HardwareInterface")

SpecStatus == InitStatus /\ [][NextStatus]_vars

\* ------------------------------------------------------ the timed tasks
\* SensorArray and HardwareInterface with the sleeps of their select! loops.
\* Time passes in steps of 500 ms; handling a message takes far less.
sensor_period(sensor_data) ==
    /\ sensor_counter < MaxFrames
    /\ SensorArray_sleep(sensor_data)
    /\ UNCHANGED events

status_period ==
    /\ hw_counter < MaxEvents
    /\ HardwareInterface_period
    /\ UNCHANGED events

\* the sensor has produced the frames of the run and is not woken again
Exhausted(t) == t = "SensorArray" /\ sensor_counter >= MaxFrames

\* 500 ms pass: no sleep has ended without waking its task, and no message
\* waits to be handled.
Tick ==
    /\ \A t \in DOMAIN sleep_left : sleep_left[t] > 0 \/ Exhausted(t)
    /\ \A c \in Channels : chan[c] = <<>>
    /\ \A m \in Modules : out[m] = <<>>
    /\ sleep_left' = [t \in DOMAIN sleep_left |->
                        IF sleep_left[t] > 0 THEN sleep_left[t] - 1 ELSE 0]
    /\ silence' = silence + 1
    /\ UNCHANGED mission_sent
    /\ log_tx' = NoLog
    /\ UNCHANGED <<lifecycle, logging, motor_cmds, calibration, chan, closed, sinks, tap, sent,
                   no_sender, command_count, motor_received, mission_counter,
                   current_mission, current_stance, out, state_sends, cmd_idx,
                   sensor_counter, hw_counter, events, clock, current_state,
                   pose_orientation, announced, emergency_stop, latest_sensor_data,
                   validated, states_received, hw_received>>

InitTimed ==
    /\ InitData({"state"}, {"sensor_data_im", "sensor_data_safety", "hw_status"},
                {"sensor_data_hw", "hw_status"}, DroppedSenders)
    /\ InitTasks
    /\ InitLogger(TRUE, TRUE)
    /\ InitTimers({"SensorArray", "HardwareInterface"})

NextTimed ==
    \/ \E sensor_data \in SensorFrames : sensor_period(sensor_data)
    \/ HardwareInterface_sensor
    \/ status_period
    \/ Tick

SpecTimed == InitTimed /\ [][NextTimed]_vars

\* ============================================================= properties
Range(q) == {q[i] : i \in 1..Len(q)}

\* the commands SafetyController let through, in the order it handled them
accepted ==
    LET passed == SelectSeq(validated, LAMBDA v : v.forwarded)
    IN [i \in 1..Len(passed) |-> passed[i].cmd]

\* the commands SafetyController blocked
rejected == {v.cmd : v \in {w \in Range(validated) : ~w.forwarded}}

\* the command send_stop_command builds
own_stop(c) == c.behavior.type = "EmergencyStop" /\ c.priority = StopPriority

\* what SafetyController has handed to hardware_interface_tx so far, in order
hw_sent ==
    LET waiting == SelectSeq(out["SafetyController"], LAMBDA e : e.ch = "behavior_hw")
    IN hw_received \o chan["behavior_hw"] \o [i \in 1..Len(waiting) |-> waiting[i].msg]

\* C1: every BehaviorCommand HardwareInterface has received came from
\* SafetyController (no other module has a send to behavior_hw in progress) and
\* is either a command SafetyController took from Behaviour and let through, or
\* the EmergencyStop command SafetyController built after it received the
\* EmergencyStop mode; no blocked command is among them.
C1_Gatekeeping ==
    /\ \A m \in Modules \ {"SafetyController"} :
          \A i \in 1..Len(out[m]) : out[m][i].ch # "behavior_hw"
    /\ \A i \in 1..Len(hw_received) :
          LET c == hw_received[i] IN
            /\ c \notin rejected
            /\ \/ c \in Range(accepted) /\ c.behavior.type \in {"MoveTowards", "AdjustStance"}
               \/ /\ own_stop(c)
                  /\ c \notin Range(accepted)
                  /\ emergency_stop
                  /\ "EmergencyStop" \in Range(states_received)

\* HardwareInterface has received a forwarded command and a stop command, and
\* SafetyController has blocked at least one command.
C1_Witness ==
    /\ rejected # {}
    /\ \E i, j \in 1..Len(hw_received) :
          /\ hw_received[i] \in Range(accepted)
          /\ own_stop(hw_received[j])

\* the receiver of queue ch takes a message in this step
Takes(ch) == chan[ch] # <<>> /\ chan'[ch] = Tail(chan[ch])

\* the modes StateManager has put on SafetyController's queue so far, in order
safety_published ==
    [i \in 1..(Len(states_received) + Len(chan["state_safety"])) |-> announced[i].state]

Resume == [type |-> "SystemCommand", cmd |-> "Resume"]

\* SafetyController has processed an EmergencyStop mode, and since the last
\* one no ExecutingMission produced by a Resume command has been published
stopped_unreleased ==
    \E k \in 1..Len(states_received) :
        /\ states_received[k] = "EmergencyStop"
        /\ \A j \in (k + 1)..Len(safety_published) :
              ~(announced[j].command = Resume /\ announced[j].state = "ExecutingMission")

\* C2: once SafetyController has processed the EmergencyStop mode, and as long
\* as no ExecutingMission mode produced by a Resume command has been published
\* after it, every BehaviorCommand SafetyController processes is rejected: it
\* is recorded as blocked and nothing is handed to HardwareInterface.
C2_RejectedWhileStopped ==
    [][(Takes("behavior_safety") /\ stopped_unreleased)
         => /\ validated' = Append(validated, [cmd |-> Head(chan["behavior_safety"]),
                                                forwarded |-> FALSE])
            /\ hw_sent' = hw_sent]_vars

\* SafetyController has processed the EmergencyStop mode, no release has been
\* published, and the last command it processed, with no sensor frame to
\* object to, was blocked.
C2_Witness ==
    /\ stopped_unreleased
    /\ latest_sensor_data = <<>>
    /\ validated # <<>>
    /\ ~validated[Len(validated)].forwarded

\* SafetyController receives, with the latch set, the ExecutingMission mode
\* that StateManager announced for a Resume command
ReceivesResumeMode ==
    /\ Takes("state_safety")
    /\ emergency_stop
    /\ announced[Len(states_received) + 1].command = Resume

\* the last mode SafetyController received is the one announced for Resume
ResumeModeReceived ==
    /\ states_received # <<>>
    /\ announced[Len(states_received)].command = Resume

\* the last frame does not object to a MoveTowards command
FrameClear ==
    \/ latest_sensor_data = <<>>
    \/ /\ latest_sensor_data[1].battery_level >= CriticalBattery
       /\ \/ latest_sensor_data[1].distance_sensors = <<>>
          \/ latest_sensor_data[1].distance_sensors[1] >= FrontObstacle

\* C3: when SafetyController, with the latch set, receives the
\* ExecutingMission mode produced by SystemCommand::Resume, the latch is false
\* afterwards, and a MoveTowards command it processes next, the last frame
\* being clear, is forwarded to HardwareInterface.
C3_LatchReleased ==
    [][/\ ReceivesResumeMode => ~emergency_stop'
       /\ (/\ Takes("behavior_safety")
           /\ ResumeModeReceived
           /\ Head(chan["behavior_safety"]).behavior.type = "MoveTowards"
           /\ FrameClear)
          => /\ validated' = Append(validated, [cmd |-> Head(chan["behavior_safety"]),
                                                 forwarded |-> TRUE])
             /\ hw_sent' = Append(hw_sent, Head(chan["behavior_safety"]))]_vars

\* The latch is still set after SafetyController received the mode announced
\* for Resume, and the MoveTowards command it processed then was blocked.
C3_Witness ==
    /\ emergency_stop
    /\ ResumeModeReceived
    /\ FrameClear
    /\ validated # <<>>
    /\ validated[Len(validated)].cmd.behavior.type = "MoveTowards"
    /\ ~validated[Len(validated)].forwarded

\* C4: while StateManager's mode is EmergencyStop, a UserCommand other than
\* SystemCommand::Resume leaves the mode EmergencyStop.
C4_StopIsSticky ==
    [][(/\ Takes("im_state_cmd")
        /\ current_state = "EmergencyStop"
        /\ Head(chan["im_state_cmd"]) # Resume)
         => current_state' = "EmergencyStop"]_vars

\* StateManager has left EmergencyStop on a command other than Resume.
C4_Witness ==
    \E i \in 1..(Len(announced) - 1) :
        /\ announced[i].state = "EmergencyStop"
        /\ announced[i + 1].command # Resume
        /\ current_state = announced[i + 1].state

\* the transition table: the mode a UserCommand leads to
mode_after(c) ==
    IF c.type = "ManualControl" THEN "ManualControl"
    ELSE IF c.type = "MissionCommand" \/ c = Resume THEN "ExecutingMission"
    ELSE IF c.cmd = "Pause" THEN "Paused"
    ELSE IF c.cmd = "EmergencyStop" THEN "EmergencyStop"
    ELSE "Idle"

\* C5: StateManager starts in Idle; a step in which it takes a UserCommand
\* sets the mode to the one the table gives for the command, whatever the
\* current mode; every other step, taking a sensor frame included, leaves the
\* mode as it is.
C5_TransitionTable ==
    /\ current_state = "Idle"
    /\ [][IF Takes("im_state_cmd")
            THEN current_state' = mode_after(Head(chan["im_state_cmd"]))
            ELSE current_state' = current_state]_vars

\* StateManager has gone through two transitions, the second one back to Idle
\* by Calibrate, and has taken a frame that changed the pose.
C5_Witness ==
    /\ Len(announced) = 2
    /\ announced[2].command = [type |-> "SystemCommand", cmd |-> "Calibrate"]
    /\ current_state = "Idle"
    /\ pose_orientation # Identity

\* the sends StateManager has issued so far: completed, or next in a handler
\* that is suspended on a full queue
state_sends_issued ==
    state_sends \o [i \in 1..Len(out["StateManager"]) |->
                      [ch |-> out["StateManager"][i].ch, msg |-> out["StateManager"][i].msg]]

\* one send per subscriber and announcement: general state bus,
\* SafetyController, TaskMissionManager
Subscribers == <<"state", "state_safety", "state_task">>

state_sends_due ==
    [i \in 1..(3 * Len(announced)) |->
        [ch |-> Subscribers[((i - 1) % 3) + 1], msg |-> announced[((i - 1) \div 3) + 1].state]]

\* C6: a step in which StateManager takes a UserCommand makes an
\* announcement if and only if the mode the command leads to differs from the
\* current mode, and nothing else makes one; every announcement is sent to the
\* three subscribers; so a command that repeats the previous one is not
\* announced, and the modes SafetyController receives never contain the same
\* mode twice in a row.
C6_AnnounceOnChange ==
    /\ [][IF Takes("im_state_cmd") /\ mode_after(Head(chan["im_state_cmd"])) # current_state
            THEN announced' = Append(announced,
                                     [command |-> Head(chan["im_state_cmd"]),
                                      state |-> mode_after(Head(chan["im_state_cmd"]))])
            ELSE announced' = announced]_vars
    /\ [](state_sends_issued = state_sends_due)
    /\ [](\A i \in 1..(Len(states_received) - 1) : states_received[i] # states_received[i + 1])

\* Three commands have been handled by StateManager, one announcement
\* (EmergencyStop) was made and sent to the three subscribers, and
\* SafetyController received it once.
C6_Witness ==
    /\ cmd_idx = 3
    /\ chan["user_command"] = <<>> /\ chan["im_state_cmd"] = <<>>
    /\ \A m \in {"InputManager", "StateManager"} : out[m] = <<>>
    /\ Len(announced) = 1 /\ announced[1].state = "EmergencyStop"
    /\ Len(state_sends) = 3
    /\ states_received = <<"EmergencyStop">>

\* the step blocks the command at the head of SafetyController's queue and
\* emits one record of the given level
BlockedWith(level) ==
    /\ validated' = Append(validated, [cmd |-> Head(chan["behavior_safety"]),
                                        forwarded |-> FALSE])
    /\ hw_sent' = hw_sent
    /\ Len(log_tx') = 1
    /\ log_tx'[1].module = "SafetyController"
    /\ log_tx'[1].level = level

\* the step hands the command at the head of SafetyController's queue, as it
\* is, to HardwareInterface
ForwardedUnchanged ==
    /\ validated' = Append(validated, [cmd |-> Head(chan["behavior_safety"]),
                                        forwarded |-> TRUE])
    /\ hw_sent' = Append(hw_sent, Head(chan["behavior_safety"]))
    /\ \A i \in 1..Len(log_tx') : log_tx'[i].level \notin {"Warn", "Error"}

\* C7: a step in which SafetyController takes a BehaviorCommand has exactly
\* one outcome, decided by the first rule that applies: latch set -> blocked
\* with a Warn record; else a last frame with battery below 10 % -> blocked
\* with an Error record, whatever the behavior; else MoveTowards and a last
\* frame whose first distance is below 50 cm -> blocked with a Warn record;
\* otherwise forwarded.
C7_RuleOrder ==
    [][Takes("behavior_safety") =>
         IF emergency_stop
           THEN BlockedWith("Warn")
         ELSE IF latest_sensor_data # <<>> /\ latest_sensor_data[1].battery_level < 10
           THEN BlockedWith("Error")
         ELSE IF /\ Head(chan["behavior_safety"]).behavior.type = "MoveTowards"
                 /\ latest_sensor_data # <<>>
                 /\ latest_sensor_data[1].distance_sensors # <<>>
                 /\ latest_sensor_data[1].distance_sensors[1] < 50
           THEN BlockedWith("Warn")
         ELSE ForwardedUnchanged]_vars

\* With the latch set and a critical battery in the last frame, a command has
\* just been blocked with a Warn record.
C7_Witness ==
    /\ emergency_stop
    /\ latest_sensor_data # <<>>
    /\ latest_sensor_data[1].battery_level < 10
    /\ Len(validated) = 1
    /\ ~validated[1].forwarded
    /\ Len(log_tx) = 1
    /\ log_tx[1].level = "Warn"

\* C8: what SafetyController has handed to HardwareInterface, its own stop
\* commands left out, is the sequence of commands it accepted, unchanged and
\* in the order it took them from its queue; a command is taken in queue
\* order and handed on in that step or never: no other step adds a command
\* from the input to what was handed to HardwareInterface.
C8_ForwardedSubsequence ==
    /\ [](SelectSeq(hw_sent, LAMBDA c : ~own_stop(c)) = accepted)
    /\ [][IF Takes("behavior_safety")
            THEN /\ Len(validated') = Len(validated) + 1
                 /\ validated'[Len(validated')].cmd = Head(chan["behavior_safety"])
                 /\ \/ hw_sent' = hw_sent
                    \/ hw_sent' = Append(hw_sent, Head(chan["behavior_safety"]))
            ELSE /\ validated' = validated
                 /\ \/ hw_sent' = hw_sent
                    \/ /\ Takes("state_safety")
                       /\ Len(hw_sent') = Len(hw_sent) + 1
                       /\ own_stop(hw_sent'[Len(hw_sent')])]_vars

\* With an obstacle in front, a MoveTowards command was blocked and the
\* command after it was accepted; HardwareInterface has received the second
\* one only.
C8_Witness ==
    /\ Len(validated) = 2
    /\ validated[1].cmd.behavior.type = "MoveTowards"
    /\ ~validated[1].forwarded
    /\ validated[2].forwarded
    /\ hw_received = <<validated[2].cmd>>

\* C9: a step in which SafetyController takes the EmergencyStop mode sets the
\* latch, emits exactly one record, of level Error, and hands exactly one
\* command to HardwareInterface: EmergencyStop with priority 10.  The command
\* is not subject to validation: this holds whatever the latch and the last
\* frame were.
C9_StopCommand ==
    [][(Takes("state_safety") /\ Head(chan["state_safety"]) = "EmergencyStop")
         => /\ emergency_stop'
            /\ Len(log_tx') = 1
            /\ log_tx'[1].module = "SafetyController"
            /\ log_tx'[1].level = "Error"
            /\ Len(hw_sent') = Len(hw_sent) + 1
            /\ SubSeq(hw_sent', 1, Len(hw_sent)) = hw_sent
            /\ hw_sent'[Len(hw_sent')].behavior = [type |-> "EmergencyStop"]
            /\ hw_sent'[Len(hw_sent')].priority = 10
            /\ validated' = validated]_vars

\* SafetyController has just taken the EmergencyStop mode for the second
\* time, with a critical battery in the last frame, and has handed two stop
\* commands to HardwareInterface.
C9_Witness ==
    /\ states_received = <<"EmergencyStop", "EmergencyStop">>
    /\ latest_sensor_data # <<>>
    /\ latest_sensor_data[1].battery_level < 10
    /\ Len(log_tx) = 1
    /\ log_tx[1].level = "Error"
    /\ Len(hw_sent) = 2
    /\ \A i \in 1..2 : own_stop(hw_sent[i])

EmergencyStopCommand == [type |-> "SystemCommand", cmd |-> "EmergencyStop"]

\* C10: the latch is set only in a step in which SafetyController takes an
\* EmergencyStop mode, and whenever it is set StateManager has announced
\* EmergencyStop for a SystemCommand::EmergencyStop; the mode changes only in
\* a step in which StateManager takes a UserCommand.  In particular the steps
\* that take a HardwareStatus or a sensor frame change neither.
C10_OnlyCommandLatches ==
    /\ [](emergency_stop =>
             \E i \in 1..Len(announced) :
                 /\ announced[i].command = EmergencyStopCommand
                 /\ announced[i].state = "EmergencyStop")
    /\ [][/\ emergency_stop' # emergency_stop
             => Takes("state_safety") /\ Head(chan["state_safety"]) = "EmergencyStop"
          /\ current_state' # current_state => Takes("im_state_cmd")
          /\ (\E ch \in {"hw_status", "sensor_data_hw", "sensor_data_im",
                          "sensor_data_safety", "im_state_sensor"} : Takes(ch))
             => /\ emergency_stop' = emergency_stop
                /\ current_state' = current_state
                /\ announced' = announced]_vars

\* InputManager has just logged a Critical hardware status and
\* SafetyController holds a frame with a critical battery; the latch is not
\* set and the mode is Idle.
C10_Witness ==
    /\ log_tx = <<create_log("InputManager", "Error", "Hardware critical")>>
    /\ latest_sensor_data # <<>>
    /\ latest_sensor_data[1].battery_level < 10
    /\ ~emergency_stop
    /\ current_state = "Idle"
    /\ announced = <<>>

\* C11: in the wiring of initialize_and_run, where the only sender of
\* OutputManager's motor input is dropped, OutputManager never takes a
\* MotorCommand and HardwareInterface never receives one on its direct motor
\* input; what HardwareInterface acts on are the BehaviorCommands
\* SafetyController accepted.
C11_NoDirectMotorCommand ==
    "dummy_motor_cmd" \in no_sender
      => /\ chan["dummy_motor_cmd"] = <<>>
         /\ command_count = 0
         /\ chan["motor_command_hw"] = <<>>
         /\ motor_received = <<>>
         /\ \A i \in 1..Len(hw_received) :
               hw_received[i] \in Range(accepted) /\ hw_received[i] \notin rejected

\* In that wiring, SafetyController has blocked a command and forwarded
\* another, which HardwareInterface has received.
C11_Witness ==
    /\ "dummy_motor_cmd" \in no_sender
    /\ rejected # {}
    /\ hw_received # <<>>
    /\ motor_received = <<>>


\* ---------------------------------------------------------------- paths
\* the i-th path ObstacleAvoidance sent on ch answers the i-th request it was
\* sent
RequestOf(i) == sent["goal_obstacle_req"][i]

FiveWaypoints(ch) ==
    \A i \in 1..Len(sent[ch]) :
       /\ Len(sent[ch][i].waypoints) = 5
       /\ i <= Len(sent["goal_obstacle_req"])
       /\ sent[ch][i].waypoints[1] = RequestOf(i).start.position
       /\ sent[ch][i].waypoints[5] = RequestOf(i).goal.position

\* C12: every Path ObstacleAvoidance emits, to GoalPlanning and to Behaviour,
\* has exactly 5 waypoints, the first at the start position of the request it
\* answers and the last at the request's goal position; every Path sent to
\* either path input of Behaviour has at least one waypoint.
C12_PathShape ==
    /\ FiveWaypoints("obstacle_goal_resp")
    /\ FiveWaypoints("behavior_path_obstacle")
    /\ \A ch \in {"behavior_path_goal", "behavior_path_obstacle"} :
          \A i \in 1..Len(sent[ch]) : Len(sent[ch][i].waypoints) >= 1

\* Behaviour was sent, on both inputs, the paths of two requests with
\* different goals away from the start.
C12_Witness ==
    /\ Len(sent["behavior_path_goal"]) = 2
    /\ Len(sent["behavior_path_obstacle"]) = 2
    /\ RequestOf(1).goal.position # RequestOf(2).goal.position
    /\ \A i \in 1..2 : RequestOf(i).goal.position # RequestOf(i).start.position


\* ------------------------------------------------------- goals to commands
\* the messages a receiver has taken from ch
Taken(ch) == SubSeq(sent[ch], 1, Len(sent[ch]) - Len(chan[ch]))

IsPrefix(s, t) == Len(s) <= Len(t) /\ s = SubSeq(t, 1, Len(s))

\* nothing is queued and no handler is running
Quiescent ==
    /\ \A ch \in PlanChannels : chan[ch] = <<>>
    /\ \A m \in Modules : out[m] = <<>>

MoveTowardsCommands ==
    \A i \in 1..Len(sent["behavior_safety"]) :
        sent["behavior_safety"][i].behavior.type = "MoveTowards"

\* C13: for the Goals GoalPlanning has received, in order: it sends a Stance
\* Query and then one Plan request from the origin pose to the goal's pose,
\* never a request ahead of its query; ObstacleAvoidance sends the path of each
\* request to GoalPlanning first and to Behaviour second; GoalPlanning sends
\* on to Behaviour the paths it received, unchanged and in order; Behaviour is
\* sent at most two paths per Goal and emits one MoveTowards per path it takes,
\* and once nothing is in flight it has taken exactly two paths and emitted
\* exactly two MoveTowards per Goal.
C13_TwoCommandsPerGoal ==
    LET goals    == Taken("goal")
        queries  == sent["stance_goal_req"]
        requests == sent["goal_obstacle_req"]
        to_goal  == sent["obstacle_goal_resp"]
        direct   == sent["behavior_path_obstacle"]
        relayed  == sent["behavior_path_goal"]
        commands == sent["behavior_safety"]
    IN  /\ Len(requests) <= Len(queries) /\ Len(queries) <= Len(goals)
        /\ Len(queries) <= Len(requests) + 1
        /\ AtSelect("GoalPlanning") => Len(requests) = Len(goals)
        /\ \A i \in 1..Len(queries) : queries[i] = StanceQuery
        /\ \A i \in 1..Len(requests) :
              requests[i] = [type |-> "Plan",
                             start |-> [position |-> <<0, 0, 0>>,
                                        orientation |-> Identity],
                             goal |-> goals[i].target_pose]
        /\ IsPrefix(direct, to_goal) /\ Len(to_goal) <= Len(direct) + 1
        /\ Len(to_goal) <= Len(Taken("goal_obstacle_req"))
        /\ AtSelect("ObstacleAvoidance") => Len(direct) = Len(Taken("goal_obstacle_req"))
        /\ IsPrefix(relayed, Taken("obstacle_goal_resp"))
        /\ AtSelect("GoalPlanning") => relayed = Taken("obstacle_goal_resp")
        /\ Len(relayed) <= Len(goals) /\ Len(direct) <= Len(goals)
        /\ MoveTowardsCommands
        /\ Len(commands) = Len(Taken("behavior_path_goal"))
                             + Len(Taken("behavior_path_obstacle"))
        /\ Quiescent => /\ Len(relayed) = Len(goals) /\ Len(direct) = Len(goals)
                        /\ Len(commands) = 2 * Len(goals)

\* Three Goals went through and nothing is in flight any more.
C13_Witness ==
    /\ Quiescent
    /\ Len(Taken("goal")) = 3
    /\ Len(sent["behavior_safety"]) = 6


\* --------------------------------------------------------------- missions
\* the positions of the Goals a command is to produce, in order
GoalPositions(c) ==
    IF c.type # "MissionCommand" THEN <<>>
    ELSE CASE c.cmd \in {"Patrol", "FollowPath"} ->
                [i \in 1..Len(c.waypoints) |->
                    <<as_f32(c.waypoints[i].lat), as_f32(c.waypoints[i].lon), 0>>]
           [] c.cmd = "GoToWaypoint" -> <<<<as_f32(c.lat), as_f32(c.lon), 0>>>>
           [] c.cmd = "ReturnHome" -> <<<<as_f32(377749000), as_f32(-1224194000), 0>>>>

\* the Goals sent in this step
NewGoals == SubSeq(sent'["goal"], Len(sent["goal"]) + 1, Len(sent'["goal"]))

MissionsTaken ==
    Cardinality({i \in 1..Len(Taken("im_task")) :
                    Taken("im_task")[i].type = "MissionCommand"})

\* C14: when TaskMissionManager takes a MissionCommand it emits one Goal per
\* waypoint of a Patrol or FollowPath, in waypoint order and whatever the loop
\* count, one Goal for a GoToWaypoint and one for a ReturnHome, and its
\* mission counter grows by 1; when it takes any other command or a mode
\* update it emits no Goal and leaves the counter alone.  The counter starts
\* at 0, so the first mission is number 1 and the counter always equals the
\* number of MissionCommands taken.
C14_GoalsPerMission ==
    /\ mission_counter = 0
    /\ [][/\ IsPrefix(sent["goal"], sent'["goal"])
          /\ Takes("im_task") =>
                LET c == Head(chan["im_task"]) IN
                  /\ Len(NewGoals) = Len(GoalPositions(c))
                  /\ \A i \in 1..Len(NewGoals) :
                        NewGoals[i].target_pose.position = GoalPositions(c)[i]
                  /\ mission_counter' = mission_counter
                        + (IF c.type = "MissionCommand" THEN 1 ELSE 0)
          /\ ~Takes("im_task") =>
                NewGoals = <<>> /\ mission_counter' = mission_counter]_vars
    /\ [](/\ mission_counter = MissionsTaken
          /\ current_mission # <<>> => current_mission[1].id = mission_counter)

\* TaskMissionManager has taken a two-waypoint Patrol of two loops, a
\* ManualControl command and a mode update, and two Goals were emitted.
C14_Witness ==
    /\ \E i \in 1..Len(Taken("im_task")) :
          /\ Taken("im_task")[i].type = "MissionCommand"
          /\ Taken("im_task")[i].cmd = "Patrol"
          /\ Len(Taken("im_task")[i].waypoints) = 2
          /\ Taken("im_task")[i].loops = 2
    /\ \E i \in 1..Len(Taken("im_task")) : Taken("im_task")[i].type = "ManualControl"
    /\ Taken("state_task") # <<>>
    /\ mission_counter = 1
    /\ Len(sent["goal"]) = 2


\* ------------------------------------------------------- mission to goal
\* GoToWaypoint{lat = 37.7750, lon = -122.4195}, in units of 1e-7 degree
GoToCommand ==
    [type |-> "MissionCommand", cmd |-> "GoToWaypoint",
     lat |-> 377750000, lon |-> -1224195000]

\* the number of messages of s that satisfy Test
Count(s, Test(_)) == Cardinality({i \in 1..Len(s) : Test(s[i])})

IsGoTo(command) == command = GoToCommand

\* After each delivery of the command to InputManager a Goal at `target` is
\* emitted, one per delivery and never more; a path of 5 waypoints ending at
\* `target` sent by ObstacleAvoidance is taken by Behaviour; and a MoveTowards
\* targeting the first waypoint of that path is sent to SafetyController.
MissionToGoal(target) ==
    LET AtTarget(goal) == goal.target_pose.position = target
        ToTarget(path) == Len(path.waypoints) = 5 /\ path.waypoints[5] = target
        Reached(n) ==
          /\ Count(sent["goal"], AtTarget) >= n
          /\ Count(Taken("behavior_path_obstacle"), ToTarget) >= n
          /\ \E i \in 1..Len(Taken("behavior_path_obstacle")) :
                /\ ToTarget(Taken("behavior_path_obstacle")[i])
                /\ \E j \in 1..Len(sent["behavior_safety"]) :
                      /\ sent["behavior_safety"][j].behavior.type = "MoveTowards"
                      /\ sent["behavior_safety"][j].behavior.target
                           = Taken("behavior_path_obstacle")[i].waypoints[1]
    IN  /\ [](Count(sent["goal"], AtTarget) <= Count(sent["user_command"], IsGoTo))
        /\ \A n \in 1..MaxMissions :
              (Count(sent["user_command"], IsGoTo) >= n) ~> Reached(n)

ManualDelivered ==
    /\ \E i \in 1..Len(chan["user_command"]) :
          chan["user_command"][i] = [type |-> "ManualControl", cmd |-> "MoveForward"]
    /\ latest_sensor_data # <<>>
    /\ latest_sensor_data[1].distance_sensors[1] = 250
    /\ latest_sensor_data[1].battery_level = 85
    /\ ~emergency_stop

MoveTowardsAtHardware ==
    \E i \in 1..Len(hw_received) : hw_received[i].behavior.type = "MoveTowards"

\* C16: when ManualControl(MoveForward(0.5)) is delivered while
\* SafetyController's last frame has front distance 2.5 and battery 0.85 and
\* the latch is unset, the mode becomes ManualControl, and a MoveTowards
\* command reaches HardwareInterface.
C16_ManualReachesActuator ==
    /\ ManualDelivered ~> (current_state = "ManualControl")
    /\ ManualDelivered ~> MoveTowardsAtHardware

\* The command and the clear frame were delivered and handled by every task: the mode is ManualControl, SafetyController was told so, no
\* command was rejected, nothing is in flight, and neither SafetyController
\* nor HardwareInterface has received any BehaviorCommand.
C16_Witness ==
    /\ sent["user_command"] = <<[type |-> "ManualControl", cmd |-> "MoveForward"]>>
    /\ \A ch \in Channels : chan[ch] = <<>>
    /\ \A m \in Modules : out[m] = <<>>
    /\ latest_sensor_data # <<>>
    /\ latest_sensor_data[1].distance_sensors[1] = 250
    /\ latest_sensor_data[1].battery_level = 85
    /\ ~emergency_stop
    /\ current_state = "ManualControl"
    /\ states_received = <<"ManualControl">>
    /\ rejected = {}
    /\ sent["behavior_safety"] = <<>>
    /\ hw_received = <<>>


\* ----------------------------------------------------------------- stance
\* what Stance has sent or is about to send on ch, in order
StanceIssued(ch) ==
    LET waiting == SelectSeq(out["Stance"], LAMBDA e : e.ch = ch)
    IN sent[ch] \o [i \in 1..Len(waiting) |-> waiting[i].msg]

\* Stance takes the request at the head of req; paired is the response
\* channel of req and other the response channel of the other input.
StanceAnswers(req, paired, other) ==
    (AtSelect("Stance") /\ Takes(req)) =>
        LET request == Head(chan[req]) IN
          IF request = [type |-> "Query"]
            THEN /\ StanceIssued(paired)' = Append(StanceIssued(paired), current_stance)
                 /\ StanceIssued(other)' = StanceIssued(other)
                 /\ StanceIssued("stance_behavior")' = StanceIssued("stance_behavior")
                 /\ current_stance' = current_stance
            ELSE /\ current_stance' = request.stance
                 /\ StanceIssued("stance_behavior")'
                      = Append(StanceIssued("stance_behavior"), request.stance)
                 /\ StanceIssued(paired)' = StanceIssued(paired)
                 /\ StanceIssued(other)' = StanceIssued(other)

\* C17: the stance starts as Normal with stability 1.0.  Stance answers a
\* Query with its current stance, on the response channel paired with the
\* input the Query came on and nowhere else; on an Adjust it replaces the
\* current stance by the new one and publishes the new one once to Behaviour,
\* without a response; in every other step the stance and what Stance has
\* issued stay as they are.
C17_StanceReplies ==
    /\ current_stance = [stance_type |-> "Normal", stability |-> 100]
    /\ [][/\ StanceAnswers("stance_obstacle_req", "stance_obstacle_resp", "stance_goal_resp")
          /\ StanceAnswers("stance_goal_req", "stance_goal_resp", "stance_obstacle_resp")
          /\ ~(AtSelect("Stance")
                 /\ (Takes("stance_obstacle_req") \/ Takes("stance_goal_req")))
               => /\ current_stance' = current_stance
                  /\ \A ch \in {"stance_obstacle_resp", "stance_goal_resp", "stance_behavior"} :
                        StanceIssued(ch)' = StanceIssued(ch)]_vars

\* A Query on the obstacle input was answered with the initial stance, then an
\* Adjust was published to Behaviour and a Query on the goal input was
\* answered with the adjusted stance.
C17_Witness ==
    /\ sent["stance_obstacle_resp"] = <<[stance_type |-> "Normal", stability |-> 100]>>
    /\ sent["stance_behavior"] = <<[stance_type |-> "HighClearance", stability |-> 60]>>
    /\ sent["stance_goal_resp"] = <<[stance_type |-> "HighClearance", stability |-> 60]>>


\* ------------------------------------------------------ InputManager fan-out
\* the two sequences agree as far as the shorter one goes
Agree(s, t) == IsPrefix(s, t) \/ IsPrefix(t, s)

\* C18: what InputManager has sent to EnvironmentUnderstanding and to
\* StateManager's sensor input are the frames it received, in receive order,
\* and what it has sent to StateManager's command input and to
\* TaskMissionManager are the commands it received, in receive order: each is a
\* prefix of what was received, the two of a pair agree as far as the shorter
\* goes and differ by at most one message, and whenever InputManager is back at
\* its select both hold everything received.  A step in which it takes a
\* HardwareStatus sends nothing.
C18_FanOut ==
    /\ [](/\ IsPrefix(sent["im_env"], Taken("sensor_data_im"))
          /\ IsPrefix(sent["im_state_sensor"], Taken("sensor_data_im"))
          /\ IsPrefix(sent["im_state_cmd"], Taken("user_command"))
          /\ IsPrefix(sent["im_task"], Taken("user_command"))
          /\ Agree(sent["im_env"], sent["im_state_sensor"])
          /\ Agree(sent["im_state_cmd"], sent["im_task"])
          /\ Len(sent["im_env"]) - Len(sent["im_state_sensor"]) \in {-1, 0, 1}
          /\ Len(sent["im_state_cmd"]) - Len(sent["im_task"]) \in {-1, 0, 1}
          /\ AtSelect("InputManager") =>
                /\ sent["im_env"] = Taken("sensor_data_im")
                /\ sent["im_state_sensor"] = Taken("sensor_data_im")
                /\ sent["im_state_cmd"] = Taken("user_command")
                /\ sent["im_task"] = Taken("user_command"))
    /\ [][Takes("hw_status") =>
            /\ out'["InputManager"] = <<>>
            /\ \A ch \in Channels \ {"hw_status"} :
                  chan'[ch] = chan[ch] /\ sent'[ch] = sent[ch]]_vars

\* InputManager has taken and passed on a frame and a command, and has taken
\* a HardwareStatus.
C18_Witness ==
    /\ AtSelect("InputManager")
    /\ Len(Taken("sensor_data_im")) = 1
    /\ Len(Taken("user_command")) = 1
    /\ Len(Taken("hw_status")) = 1
    /\ sent["im_env"] = Taken("sensor_data_im")
    /\ sent["im_task"] = Taken("user_command")


\* ------------------------------------------------------------ sensor path
\* the sends on ch that module m still has to do
Owed(m, ch) == Len(SelectSeq(out[m], LAMBDA e : e.ch = ch))

\* C19: every frame SensorArray has generated was sent, or is about to be
\* sent, on the HardwareInterface/InputManager path and on the SafetyController
\* path; the frames sent to SafetyController are always a prefix of those sent
\* on the InputManager path and at most one frame behind them; what
\* HardwareInterface has sent on to InputManager is a prefix of what it
\* received, in the order received, and all of it once HardwareInterface is
\* back at its select.
C19_SensorFanOut ==
    /\ Len(sent["sensor_data_hw"]) + Owed("SensorArray", "sensor_data_hw") = sensor_counter
    /\ Len(sent["sensor_data_safety"]) + Owed("SensorArray", "sensor_data_safety")
         = sensor_counter
    /\ IsPrefix(sent["sensor_data_safety"], sent["sensor_data_hw"])
    /\ Len(sent["sensor_data_hw"]) <= Len(sent["sensor_data_safety"]) + 1
    /\ IsPrefix(sent["sensor_data_im"], Taken("sensor_data_hw"))
    /\ AtSelect("HardwareInterface") => sent["sensor_data_im"] = Taken("sensor_data_hw")

\* Three frames were generated; the third went out on the InputManager path
\* and waits for room in SafetyController's queue, and HardwareInterface has
\* relayed two different frames.
C19_Witness ==
    /\ sensor_counter = 3
    /\ Len(sent["sensor_data_hw"]) = 3
    /\ Len(sent["sensor_data_safety"]) = 2
    /\ Len(sent["sensor_data_im"]) >= 2
    /\ sent["sensor_data_im"][1] # sent["sensor_data_im"][2]


\* ------------------------------------------------------------ failed sends
\* the sends StateManager finished in this step
NewStateSends == SubSeq(state_sends', Len(state_sends) + 1, Len(state_sends'))

\* C20: whenever a send of StateManager fails because the receiver of the
\* channel is closed, the step emits a log record of StateManager at Error
\* level.  (In the wired system the state bus is the one data channel whose
\* receiver is closed, and StateManager is its one sender.)
C20_FailedSendLogged ==
    [][\A i \in 1..Len(NewStateSends) :
          NewStateSends[i].ch \in closed =>
             \E j \in 1..Len(log_tx') :
                /\ log_tx'[j].module = "StateManager"
                /\ log_tx'[j].level = "Error"]_vars

\* StateManager has just handled a command: its send on the state bus failed,
\* it went on to deliver the announcement to SafetyController, and the one
\* record of the step is the Info record of the transition.
C20_Witness ==
    /\ "state" \in closed
    /\ Len(state_sends) >= 2
    /\ state_sends[1].ch = "state"
    /\ state_sends[2].ch = "state_safety"
    /\ log_tx = <<[module |-> "StateManager", level |-> "Info",
                   message |-> "State transition"]>>
    /\ chan["state_safety"] # <<>>


\* ---------------------------------------------------------------- C30
\* the commands HardwareInterface received that are not AdjustStance
Driving == SelectSeq(hw_received, LAMBDA c : c.behavior.type # "AdjustStance")

\* C30: HardwareInterface has built one MotorCommand for each MoveTowards,
\* AvoidObstacle, EmergencyStop and Idle command it received, in the order of
\* the commands, and none for AdjustStance; the one for an EmergencyStop or
\* an Idle command has both wheel speeds zero.
C30_MotorCommandPerBehavior ==
    /\ Len(motor_cmds) = Len(Driving)
    /\ \A i \in 1..Len(Driving) :
         (i <= Len(motor_cmds) /\ Driving[i].behavior.type \in {"EmergencyStop", "Idle"})
            => motor_cmds[i] = [left_speed |-> 0, right_speed |-> 0]

\* HardwareInterface has handled the EmergencyStop command of SafetyController
\* and has built no MotorCommand.
C30_Witness ==
    /\ \E i \in 1..Len(hw_received) :
         /\ hw_received[i].behavior.type = "EmergencyStop"
         /\ hw_received[i].priority = 10
    /\ motor_cmds = <<>>


\* ---------------------------------------------------------------- C29
\* the voltage of 12.6 - min(0.01 * n, 0.5) volts, times 100, in units of 2^-20 V
Nominal(n) == (1260 - (IF n < 50 THEN n ELSE 50)) * 1048576

\* C29: the n-th HardwareStatus sent (n from 0) carries 12.6 - min(0.01 n, 0.5)
\* volts, to the precision of an f32 (2^-20 V); the voltage never increases
\* from one status to the next and is never below 12.1 V; health is Warning
\* exactly when the voltage is below 11.5 V, so every status is Healthy, and
\* InputManager logs no hardware warning and no hardware critical record.
C29_BatteryStatus ==
    /\ \A i \in 1..Len(sent["hw_status"]) :
         LET status == sent["hw_status"][i]
             voltage == status.battery_voltage
         IN /\ abs(100 * voltage - Nominal(i - 1)) <= 100
            /\ i > 1 => voltage <= sent["hw_status"][i - 1].battery_voltage
            /\ 10 * voltage >= 121 * 1048576
            /\ (status.health = "Warning") <=> (2 * voltage < 23 * 1048576)
            /\ status.health = "Healthy"
    /\ \A i \in 1..Len(log_tx) :
         log_tx[i].module = "InputManager"
            => log_tx[i].message \notin {"Hardware warning", "Hardware critical"}

\* More than fifty statuses were sent, the last one at the floor of the
\* voltage, and InputManager has handled at least fifty of them.
C29_Witness ==
    /\ Len(sent["hw_status"]) > 51
    /\ sent["hw_status"][Len(sent["hw_status"])].battery_voltage = 12687770
    /\ Len(Taken("hw_status")) >= 50


\* ---------------------------------------------------------------- C28
\* C28: while it runs, HardwareInterface is never silent for more than 2 s
\* (four units of 500 ms): a HardwareStatus is produced every 2 s, whatever
\* else arrives on its inbound queues.
C28_StatusEveryTwoSeconds == silence <= 4

\* Five sensor frames have gone through HardwareInterface, one every 500 ms,
\* and no HardwareStatus was produced in 2.5 s.
C28_Witness ==
    /\ Len(Taken("sensor_data_hw")) = 5
    /\ silence = 5
    /\ sent["hw_status"] = <<>>


\* ---------------------------------------------------------------- C21
\* every sender of every inbound queue of task t is gone and the queues are
\* drained: recv() returns None on each of them
EndOfStream(t) ==
    /\ Receivers(t) # {}
    /\ \A c \in Receivers(t) : c \in no_sender /\ chan[c] = <<>>

\* C21: a task whose inbound queues have all lost their senders (the sending
\* tasks ended, or the senders were dropped) sees the end of the streams and
\* ends, shutdown broadcast or not.
C21_EndOfStreamExit ==
    \A t \in DownTasks : EndOfStream(t) ~> (pc[t] = "done")

\* The sender of OutputManager's only inbound queue was dropped before the
\* task was spawned; all frames of the run have been handled, nothing was
\* broadcast, and OutputManager is still in its loop.
C21_Witness ==
    /\ EndOfStream("OutputManager")
    /\ pc["OutputManager"] = "select"
    /\ \A t \in Tasks : shutdown_rx[t] = 0
    /\ events = 3
    /\ \A c \in Channels : chan[c] = <<>>

\* ---------------------------------------------------------------- C22
Stopped(t) == create_log(t, "Info", "Stopped")

Emitted(t, records) == SelectSeq(records, LAMBDA r : r.module = t)

\* the step of task t from its loop to the end of run
Ends(t) == pc[t] = "select" /\ pc'[t] = "done"

Broadcast == \E t \in Tasks : shutdown_rx[t] > 0 \/ pc[t] = "done"

Handles(t) ==
    \/ \E c \in Receivers(t) : Takes(c)
    \/ t = "SensorArray" /\ sensor_counter' # sensor_counter
    \/ t = "HardwareInterface" /\ hw_counter' # hw_counter

\* C23: a task that has the broadcast value in its subscription starts no
\* further handler: at its select! it takes the shutdown branch, and a
\* handler in flight is only completed.
C23_NoHandlingAfterSignal ==
    [][\A t \in DownTasks : shutdown_rx[t] > 0 => ~Handles(t)]_vars

\* SafetyController has the broadcast value in its subscription and a frame
\* in its queue, and no handler running: both branches of its select! are
\* ready.
C23_Witness ==
    /\ shutdown_rx["SafetyController"] = 1
    /\ AtSelect("SafetyController")
    /\ chan["sensor_data_safety"] # <<>>


\* ---------------------------------------------------------------- C24
\* s is t with some elements left out
RECURSIVE IsSubsequence(_, _)
IsSubsequence(s, t) ==
    IF s = <<>> THEN TRUE
    ELSE IF t = <<>> THEN FALSE
    ELSE IF Head(s) = Head(t) THEN IsSubsequence(Tail(s), Tail(t))
    ELSE IsSubsequence(s, Tail(t))

\* the records of module m that reached the sink with operation op, in order
Sunk(op, m) ==
    LET ops == SelectSeq(io, LAMBDA o : o.op = op /\ o.entry.module = m)
    IN [i \in 1..Len(ops) |-> ops[i].entry]

\* the records module m emitted, in order
EmittedBy(m) == SelectSeq(sent["log"], LAMBDA r : r.module = m)

\* C24: for each module, the records of the module written to the file, and
\* those published to the stream, are a subsequence of the records the
\* module emitted: same order, none twice.
C24_PerModuleOrder ==
    \A m \in LogModules :
        /\ IsSubsequence(Sunk("write", m), EmittedBy(m))
        /\ IsSubsequence(Sunk("publish", m), EmittedBy(m))

\* Three records of two modules, emitted in turn (SensorArray, Behaviour,
\* SensorArray), have all been written to the file.
C24_Witness ==
    /\ Len(sent["log"]) = 3
    /\ sent["log"][1].module = "SensorArray"
    /\ sent["log"][2].module = "Behaviour"
    /\ sent["log"][3].module = "SensorArray"
    /\ Len(Sunk("write", "SensorArray")) = 2
    /\ Len(Sunk("write", "Behaviour")) = 1

\* ---------------------------------------------------------------- C25
\* what the step added to the Logger's operations
NewOps == SubSeq(io', Len(io) + 1, Len(io'))

SinkOps(ops) == SelectSeq(ops, LAMBDA o : o.op \in {"publish", "write"})

\* C25: the Logger works on the sinks only in the step in which it takes a
\* record from the channel, and only for that record: it publishes the record
\* to the stream and then writes it to the file, never the other way round,
\* and all of it before the next record is taken.
C25_StreamBeforeFile ==
    [][IF Takes("log")
         THEN LET entry == Head(chan["log"])
              IN SinkOps(NewOps) \in {<<>>, <<Publish(entry)>>, <<Write(entry)>>,
                                      <<Publish(entry), Write(entry)>>}
         ELSE SinkOps(NewOps) = <<>>]_vars

\* The first record was published and then written, and a second record
\* has been taken since.
C25_Witness ==
    /\ Len(Taken("log")) >= 2
    /\ Len(io) >= 2
    /\ io[1] = Publish(Taken("log")[1])
    /\ io[2] = Write(Taken("log")[1])

\* ---------------------------------------------------------------- C26
\* C26: a record the Logger takes is written to the file whenever the file is
\* open and no file operation fails for it, whatever happens on the stream;
\* it is published to the stream whenever the stream is up and no stream
\* operation fails for it, whatever happens on the file; and the Logger
\* goes on running.
C26_SinksIndependent ==
    [][Takes("log")
         => LET entry == Head(chan["log"])
                file_failed ==
                    \E i \in 1..Len(NewOps) :
                        NewOps[i].op \in {"Failed to create MCAP channel",
                                          "Error writing to MCAP"}
                stream_failed ==
                    \E i \in 1..Len(NewOps) :
                        NewOps[i].op = "Failed to create WebSocket channel"
            IN /\ (logger.mcap_writer /\ ~file_failed)
                    => Write(entry) \in Range(NewOps)
               /\ (logger.foxglove_context /\ ~stream_failed)
                    => Publish(entry) \in Range(NewOps)
               /\ pc'["Logger"] = "select"]_vars

\* With the file open, the stream channel of the first record's module could
\* not be created, and the record is not in the file.
C26_Witness ==
    /\ logger.mcap_writer
    /\ Len(Taken("log")) = 1
    /\ io = <<Failed("Failed to create WebSocket channel", Taken("log")[1])>>

\* ---------------------------------------------------------------- C27
\* C27: the file is finalized at most once and nothing is written to it
\* afterwards; when the Logger takes the shutdown branch with the file open,
\* that step finalizes the file, once, and leaves no writer for Drop.
C27_FinalizedOnce ==
    /\ [](/\ Len(SelectSeq(io, LAMBDA o : o.op = "finish")) <= 1
          /\ \A i, j \in 1..Len(io) :
                (i < j /\ io[i].op = "finish") => io[j].op # "write")
    /\ [][(pc["Logger"] = "select" /\ pc'["Logger"] = "done" /\ logger.mcap_writer)
            => /\ Len(io') = Len(io) + 1
               /\ SubSeq(io', 1, Len(io)) = io
               /\ io'[Len(io')].op = "finish"
               /\ ~logger'.mcap_writer]_vars

\* The Logger has ended; the file holds a record and, after it, the footer.
C27_Witness ==
    /\ pc["Logger"] = "done"
    /\ Len(io) >= 2
    /\ io[Len(io) - 1].op = "write"
    /\ io[Len(io)].op = "finish"


\* C36: the latch never goes from true to false, and in what SafetyController
\* hands to HardwareInterface in the wired system (where Behaviour is the only
\* sender of SafetyController's command input) nothing but EmergencyStop
\* commands follows an EmergencyStop command.
C36_LatchMonotonic ==
    /\ [][emergency_stop => emergency_stop']_vars
    /\ [](\A i, j \in 1..Len(hw_sent) :
             (i < j /\ hw_sent[i].behavior.type = "EmergencyStop")
               => hw_sent[j].behavior.type = "EmergencyStop")

\* HardwareInterface has received a forwarded command and then the stop
\* command; SafetyController has since received a mode other than
\* EmergencyStop, and the latch is still set.
C36_Witness ==
    /\ emergency_stop
    /\ Len(states_received) >= 2
    /\ states_received[Len(states_received) - 1] = "EmergencyStop"
    /\ states_received[Len(states_received)] # "EmergencyStop"
    /\ \E i \in 1..(Len(hw_received) - 1) :
          /\ hw_received[i] \in Range(accepted)
          /\ own_stop(hw_received[i + 1])

\* C37: with the latch unset and no frame received yet, SafetyController
\* forwards every command it takes; and it forwards a MoveTowards when the
\* last frame has a battery level of at least 0.10 and no distance reading.
C37_FailOpen ==
    [][(/\ Takes("behavior_safety")
        /\ ~emergency_stop
        /\ \/ latest_sensor_data = <<>>
           \/ /\ Head(chan["behavior_safety"]).behavior.type = "MoveTowards"
              /\ latest_sensor_data # <<>>
              /\ latest_sensor_data[1].battery_level >= 10
              /\ latest_sensor_data[1].distance_sensors = <<>>)
         => /\ validated' = Append(validated, [cmd |-> Head(chan["behavior_safety"]),
                                                forwarded |-> TRUE])
            /\ hw_sent' = Append(hw_sent, Head(chan["behavior_safety"]))]_vars

\* HardwareInterface has received a MoveTowards that SafetyController let
\* through before any frame, and another it let through on a frame without
\* distance readings.
C37_Witness ==
    /\ ~emergency_stop
    /\ latest_sensor_data # <<>>
    /\ latest_sensor_data[1].distance_sensors = <<>>
    /\ Len(hw_received) = 2
    /\ \A i \in 1..2 : hw_received[i].behavior.type = "MoveTowards"
    /\ Len(validated) = 2


\* the verdict of SafetyController on a command, from the latch and the last
\* frame alone
SafeByFrame(cmd) ==
    /\ ~emergency_stop
    /\ \/ latest_sensor_data = <<>>
       \/ /\ latest_sensor_data[1].battery_level >= 10
          /\ \/ cmd.behavior.type # "MoveTowards"
             \/ latest_sensor_data[1].distance_sensors = <<>>
             \/ latest_sensor_data[1].distance_sensors[1] >= 50

\* C38: a mode other than EmergencyStop that SafetyController takes changes
\* neither the latch nor the last frame and makes it emit nothing (no command,
\* no log record); the verdict on a command is a function of the latch and
\* the last frame, whatever modes were received, so a MoveTowards taken when
\* the last mode received is Paused or Idle is forwarded; and
\* TaskMissionManager emits the Goal of a MissionCommand whatever mode it took
\* last.
C38_ModeIgnored ==
    [][/\ (Takes("state_safety") /\ Head(chan["state_safety"]) # "EmergencyStop")
          => /\ emergency_stop' = emergency_stop
             /\ latest_sensor_data' = latest_sensor_data
             /\ validated' = validated
             /\ hw_sent' = hw_sent
             /\ log_tx' = <<>>
       /\ Takes("behavior_safety")
          => /\ validated' = Append(validated,
                                    [cmd |-> Head(chan["behavior_safety"]),
                                     forwarded |-> SafeByFrame(Head(chan["behavior_safety"]))])
             /\ hw_sent' = IF SafeByFrame(Head(chan["behavior_safety"]))
                             THEN Append(hw_sent, Head(chan["behavior_safety"]))
                             ELSE hw_sent
       /\ (Takes("im_task") /\ Head(chan["im_task"]).type = "MissionCommand")
          => Len(sent'["goal"]) = Len(sent["goal"]) + 1]_vars

\* SafetyController has received the mode Paused and then forwarded a
\* MoveTowards, which HardwareInterface received; TaskMissionManager has taken
\* the mode Paused and then a MissionCommand, and emitted its Goal.
C38_Witness ==
    /\ states_received = <<"Paused">>
    /\ Len(validated) = 1
    /\ validated[1].forwarded
    /\ validated[1].cmd.behavior.type = "MoveTowards"
    /\ hw_received = <<validated[1].cmd>>
    /\ Taken("state_task") = <<"Paused">>
    /\ Len(Taken("im_task")) = 1
    /\ Len(sent["goal"]) = 1


\* a command without its timestamp
Untimed(c) == [behavior |-> c.behavior, priority |-> c.priority]

\* the commands Behaviour has handed to safety_controller_tx so far (sent, or
\* waiting for room in the queue), in order
issued ==
    LET waiting == SelectSeq(out["Behaviour"], LAMBDA e : e.ch = "behavior_safety")
    IN [i \in 1..(Len(sent["behavior_safety"]) + Len(waiting)) |->
          IF i <= Len(sent["behavior_safety"])
            THEN Untimed(sent["behavior_safety"][i])
            ELSE Untimed(waiting[i - Len(sent["behavior_safety"])].msg)]

\* C32: a step in which Behaviour takes a Path with a waypoint adds exactly
\* one command to what it sends SafetyController, MoveTowards the position of
\* the first waypoint at speed 0.5 with priority 5; a step in which it takes a
\* Path without waypoints adds none; a step in which it takes a StanceConfig
\* adds exactly one AdjustStance of that stance with priority 7; no other step
\* adds or reorders commands, and every command handed over is sent.
C32_OneCommandPerInput ==
    /\ [][/\ \A ch \in {"behavior_path_goal", "behavior_path_obstacle"} :
               Takes(ch) =>
                 issued' = IF Head(chan[ch]).waypoints = <<>>
                             THEN issued
                             ELSE Append(issued,
                                    [behavior |-> [type |-> "MoveTowards",
                                                   target |-> Head(chan[ch]).waypoints[1],
                                                   speed |-> 50],
                                     priority |-> 5])
          /\ Takes("stance_behavior") =>
               issued' = Append(issued,
                                [behavior |-> [type |-> "AdjustStance",
                                               stance |-> Head(chan["stance_behavior"])],
                                 priority |-> 7])
          /\ (~\E ch \in {"behavior_path_goal", "behavior_path_obstacle", "stance_behavior"} :
                 Takes(ch)) => issued' = issued
          /\ IsPrefix(sent["behavior_safety"], sent'["behavior_safety"])]_vars
    /\ [](Len(out["Behaviour"]) <= 1)

\* Behaviour has taken a Path without waypoints, a Path from the other input
\* and a StanceConfig, and has sent a MoveTowards and then an AdjustStance.
C32_Witness ==
    /\ Taken("behavior_path_goal") = <<[waypoints |-> <<>>]>>
    /\ Taken("behavior_path_obstacle") = <<[waypoints |-> <<<<3, 4, 0>>>>]>>
    /\ Len(Taken("stance_behavior")) = 1
    /\ Len(sent["behavior_safety"]) = 2
    /\ sent["behavior_safety"][1].behavior.type = "MoveTowards"
    /\ sent["behavior_safety"][2].behavior.type = "AdjustStance"


\* C39: in the wired mission path every request GoalPlanning sends starts at
\* position (0, 0, 0), the first waypoint of every path ObstacleAvoidance
\* sends is the start position of its request, and every command Behaviour
\* emits is a MoveTowards with target (0, 0, 0), whatever the Goals are.
C39_TargetIsOrigin ==
    /\ \A i \in 1..Len(sent["goal_obstacle_req"]) :
          sent["goal_obstacle_req"][i].start.position = <<0, 0, 0>>
    /\ \A ch \in {"obstacle_goal_resp", "behavior_path_obstacle", "behavior_path_goal"} :
          \A i \in 1..Len(sent[ch]) :
              sent[ch][i].waypoints[1] = sent["goal_obstacle_req"][i].start.position
    /\ \A i \in 1..Len(sent["behavior_safety"]) :
          /\ sent["behavior_safety"][i].behavior.type = "MoveTowards"
          /\ sent["behavior_safety"][i].behavior.target = <<0, 0, 0>>

\* A Goal away from the origin went through, and Behaviour has emitted the
\* two commands of its two paths, whose last waypoint is not the origin.
C39_Witness ==
    /\ Len(Taken("goal")) = 1
    /\ Taken("goal")[1].target_pose.position # <<0, 0, 0>>
    /\ Len(sent["behavior_safety"]) = 2
    /\ Len(Taken("behavior_path_goal")) = 1
    /\ Taken("behavior_path_goal")[1].waypoints[5] # <<0, 0, 0>>


\* the records a task logs when it takes the shutdown signal
ShutdownRecords(t) ==
    {create_log(t, "Info", "Shutdown signal received"), create_log(t, "Info", "Stopped")}

Suspended(m) ==
    /\ out[m] # <<>>
    /\ Head(out[m]).ch \notin closed \cup sinks
    /\ Len(chan[Head(out[m]).ch]) >= ChanCap

\* the module that drains the queue m is waiting for
WaitsFor(m) == CHOOSE t \in Tasks : Head(out[m]).ch \in Receivers(t)

\* some of the three planning modules are each suspended on a queue that
\* only another suspended one of them drains
CircularWait ==
    \E S \in SUBSET {"GoalPlanning", "ObstacleAvoidance", "Stance"} :
        /\ S # {}
        /\ \A m \in S : Suspended(m) /\ WaitsFor(m) \in S

\* C34: GoalPlanning, ObstacleAvoidance and Stance never block each other
\* forever: in no reachable state is each module of a cycle suspended inside
\* a handler on a send to a full queue that only another suspended module of
\* the cycle drains.
C34_NoCircularWait == ~CircularWait

\* GoalPlanning waits to send a PathRequest to ObstacleAvoidance, while
\* ObstacleAvoidance waits to send a Path back to GoalPlanning; neither is at
\* its select!, so neither takes the shutdown signal.
C34_Witness ==
    /\ Suspended("GoalPlanning")
    /\ Head(out["GoalPlanning"]).ch = "goal_obstacle_req"
    /\ Suspended("ObstacleAvoidance")
    /\ Head(out["ObstacleAvoidance"]).ch = "obstacle_goal_resp"
    /\ ~AtSelect("GoalPlanning") /\ ~AtSelect("ObstacleAvoidance")


\* ------------------------------------------ shutdown and the log channel
\* The modules whose end is followed with the Logger.
StopTasks == {"SafetyController", "Behaviour"}

\* The shutdown branch of the select! of task t with its records sent on
\* log_tx: "Shutdown signal received", the break, "Stopped", the end of run.
\* A send to the log channel fails when the Logger's receiver is gone.
shutdown_recv_logged(t) ==
    /\ AtSelect(t)
    /\ shutdown_rx[t] > 0
    /\ shutdown_rx' = [shutdown_rx EXCEPT ![t] = @ - 1]
    /\ pc' = [pc EXCEPT ![t] = "done"]
    /\ Emit(t, chan, NoLog,
            <<Pending("log", create_log(t, "Info", "Shutdown signal received"),
                      NoLog, NoLog),
              Pending("log", create_log(t, "Info", "Stopped"), NoLog, NoLog)>>)
    /\ closed' = closed \cup Receivers(t)
    /\ no_sender' = no_sender \cup
         {c \in Senders(t) : \A u \in Tasks \ {t} : c \in Senders(u) => pc[u] = "done"}
    /\ UNCHANGED <<logging, timing, motor_cmds, calibration, sinks, tap,
                   command_count, motor_received, mission_counter,
                   current_mission, current_stance, state_sends, cmd_idx,
                   sensor_counter, hw_counter, events, clock, current_state,
                   pose_orientation, announced, emergency_stop, latest_sensor_data,
                   validated, states_received, hw_received>>

InitStop ==
    /\ InitData({"state"}, Unmodelled, {"log"}, DroppedSenders)
    /\ InitTasks
    /\ InitLogger(TRUE, TRUE)
    /\ InitTimers({})

NextStop ==
    \/ Logger_entry
    \/ shutdown_broadcast
    \/ Logger_shutdown
    \/ \E t \in StopTasks : shutdown_recv_logged(t)
    \/ \E t \in StopTasks : Send(t)

SpecStop == InitStop /\ [][NextStop]_vars

\* ---------------------------------------------------------------- C31
\* the footer is in the file
Finalized == \E i \in DOMAIN io : io[i].op = "finish"

\* the record was written to the file before the footer
Filed(entry) ==
    \E i \in DOMAIN io :
        /\ io[i].op = "write"
        /\ io[i].entry = entry
        /\ \A j \in 1..i : io[j].op # "finish"

\* C31: every record accepted into the log channel is dispatched before the
\* file is finalized: once the footer is written, no accepted record is left
\* in the queue, and the file holds the "Stopped" record of every module.
C31_AllDispatched ==
    Finalized =>
        /\ chan["log"] = <<>>
        /\ \A t \in StopTasks : Filed(Stopped(t))

\* The Logger has written the footer and ended while SafetyController's
\* "Stopped" record, accepted by the log channel, is still in the queue.
C31_Witness ==
    /\ Finalized
    /\ pc["Logger"] = "done"
    /\ pc["SafetyController"] = "done"
    /\ \E i \in DOMAIN chan["log"] : chan["log"][i] = Stopped("SafetyController")
    /\ ~Filed(Stopped("SafetyController"))


\* ------------------------------------------------- the calibration store
\* ModelCalibrationStorage with a client that holds the request sender and
\* the response receiver.  (initialize_and_run keeps both ends in unused
\* variables and drops them on return: wired that way, no request is sent.)
CalibrationUpdates ==
    {[default_calibration EXCEPT !.wheel_diameter = 16],
     [default_calibration EXCEPT !.max_speed = 150, !.max_angular_velocity = 100]}

GetRequest == [type |-> "Get"]
UpdateRequest(new_data) == [type |-> "Update", data |-> new_data]

CalibrationRequests == {GetRequest} \cup {UpdateRequest(d) : d \in CalibrationUpdates}

\* the read guard is kept while the response is sent
calibration_handle_request_guard_held(request) ==
    IF request.type = "Get"
      THEN [data |-> calibration_data, guard |-> "read", logs |-> NoLog,
            sends |-> <<Pending("calib_resp", calibration_data, NoLog, NoLog)>>]
      ELSE [data |-> request.data, guard |-> "free",
            logs |-> <<create_log("CalibrationStorage", "Info", "Calibration data updated")>>,
            sends |-> <<>>]

\* ModelCalibrationStorage::handle_request.  Get: the record is cloned under
\* the read guard, a temporary that is dropped at the end of the let
\* statement, and the clone is sent.  Update: the record is replaced under
\* the write guard, the guard is dropped, and the update is logged.  guard
\* is the guard held while the handler sends.
calibration_handle_request(request) ==
    IF request.type = "Get"
      THEN [data |-> calibration_data, guard |-> "free", logs |-> NoLog,
            sends |-> <<Pending("calib_resp", calibration_data, NoLog, NoLog)>>]
      ELSE [data |-> request.data, guard |-> "free",
            logs |-> <<create_log("CalibrationStorage", "Info", "Calibration data updated")>>,
            sends |-> <<>>]

\* ModelCalibrationStorage::run, request branch
ModelCalibrationStorage_request ==
    /\ AtSelect("ModelCalibrationStorage")
    /\ chan["calib_req"] # <<>>
    /\ \E r \in {calibration_handle_request(Head(chan["calib_req"]))} :
         /\ Emit("ModelCalibrationStorage", Recv("calib_req"), r.logs, r.sends)
         /\ calibration_data' = r.data
         /\ calib_lock' = IF out'["ModelCalibrationStorage"] # <<>> THEN r.guard ELSE "free"
    /\ UNCHANGED <<lifecycle, logging, timing, motor_cmds, closed, sinks, tap,
                   no_sender, command_count, motor_received, mission_counter,
                   current_mission, current_stance, state_sends, cmd_idx,
                   sensor_counter, hw_counter, events, clock, current_state,
                   pose_orientation, announced, emergency_stop, latest_sensor_data,
                   validated, states_received, hw_received>>

\* the client sends a request
calibration_request_send(request) ==
    /\ inject("calib_req", request, MaxRequests)
    /\ UNCHANGED clock

\* the client takes a response
calibration_response_recv ==
    /\ chan["calib_resp"] # <<>>
    /\ chan' = Recv("calib_resp")
    /\ log_tx' = NoLog
    /\ UNCHANGED <<lifecycle, logging, timing, motor_cmds, calibration, closed, sinks,
                   tap, sent, no_sender, command_count, motor_received,
                   mission_counter, current_mission, current_stance, out,
                   state_sends, cmd_idx, sensor_counter, hw_counter, events, clock,
                   current_state, pose_orientation, announced, emergency_stop,
                   latest_sensor_data, validated, states_received, hw_received>>

InitCalibration ==
    InitWith({"state"}, Unmodelled, {"calib_req", "calib_resp"}, DroppedSenders)

NextCalibration ==
    \/ \E request \in CalibrationRequests : calibration_request_send(request)
    \/ ModelCalibrationStorage_request
    \/ Send("ModelCalibrationStorage")
    \/ calibration_response_recv

SpecCalibration == InitCalibration /\ [][NextCalibration]_vars

\* ---------------------------------------------------------------- C33
\* the responses due for the requests reqs, the store holding data before them
RECURSIVE Responses(_, _)
Responses(reqs, data) ==
    IF reqs = <<>> THEN <<>>
    ELSE IF Head(reqs).type = "Get"
      THEN <<data>> \o Responses(Tail(reqs), data)
      ELSE Responses(Tail(reqs), Head(reqs).data)

\* the record the store holds after the requests reqs
RECURSIVE Stored(_, _)
Stored(reqs, data) ==
    IF reqs = <<>> THEN data
    ELSE Stored(Tail(reqs), IF Head(reqs).type = "Get" THEN data ELSE Head(reqs).data)

\* the responses the store has sent or is sending
Answered ==
    sent["calib_resp"] \o
      [i \in 1..Len(out["ModelCalibrationStorage"]) |->
          out["ModelCalibrationStorage"][i].msg]

\* C33: the store answers every Get, and only a Get, with one response: the
\* whole payload of the most recent Update, or the record with wheel diameter
\* 0.15 m, wheel base 0.30 m, 2 m/s and 1.5 rad/s if there was none; and it
\* holds no guard of the lock while it waits on a send.
C33_CalibrationStore ==
    /\ Answered = Responses(Taken("calib_req"), default_calibration)
    /\ calibration_data = Stored(Taken("calib_req"), default_calibration)
    /\ default_calibration.wheel_diameter = 15 /\ default_calibration.wheel_base = 30
    /\ default_calibration.max_speed = 200
    /\ default_calibration.max_angular_velocity = 150
    /\ calib_lock = "free"

\* An Update was handled, then Gets: the client has the updated record, and
\* the store is suspended on the full response queue with one more.
C33_Witness ==
    /\ Len(Taken("calib_req")) = 4
    /\ Taken("calib_req")[1].type = "Update"
    /\ \A i \in 2..4 : Taken("calib_req")[i].type = "Get"
    /\ Len(chan["calib_resp"]) = ChanCap
    /\ out["ModelCalibrationStorage"] # <<>>
    /\ Head(chan["calib_resp"]).wheel_diameter = 16


\* ------------------------------------------------ the emergency-stop ring
\* SafetyController sends to HardwareInterface, HardwareInterface to
\* InputManager, InputManager to StateManager, StateManager to
\* SafetyController, each from inside a handler.  The operator alternates
\* between EmergencyStop and Pause, Behaviour is reduced to the commands it
\* sends, and of HardwareInterface's two sends to InputManager the status
\* report of its 2 s timer is followed.
RingCommand(i) ==
    [type |-> "SystemCommand", cmd |-> IF i % 2 = 1 THEN "EmergencyStop" ELSE "Pause"]

RingBehavior ==
    [timestamp |-> 0,
     behavior |-> [type |-> "AdjustStance",
                   stance |-> [stance_type |-> "LowProfile", stability |-> 80]],
     priority |-> StancePriority]

\* Behaviour's commands come first, then the operator's.
ring_behavior_send ==
    /\ inject("behavior_safety", RingBehavior, MaxRingBehaviors)
    /\ UNCHANGED clock

ring_command_send ==
    /\ events >= MaxRingBehaviors
    /\ inject("user_command", RingCommand(Len(sent["user_command"]) + 1),
              MaxRingBehaviors + MaxRingCommands)
    /\ UNCHANGED clock

RingTasks == {"HardwareInterface", "InputManager", "StateManager", "SafetyController"}

\* what the tasks do, as opposed to what arrives from outside
RingSteps ==
    \/ hw_counter < MaxRingStatus /\ HardwareInterface_period /\ UNCHANGED events
    \/ HardwareInterface_behavior
    \/ handle_user_command
    \/ handle_hardware_status
    \/ StateManager_command
    \/ SafetyController_behavior
    \/ SafetyController_state
    \/ \E m \in RingTasks : Send(m)

InitRing ==
    InitWith({"state"}, Unmodelled, {"user_command", "behavior_safety"}, DroppedSenders)

NextRing ==
    \/ ring_behavior_send
    \/ ring_command_send
    \/ RingSteps

SpecRing == InitRing /\ [][NextRing]_vars

\* Every task is polled again and again, and a select! with a ready branch
\* takes one; nothing obliges the sources to send.
FairRing == WF_vars(RingSteps)

SpecRingFair == SpecRing /\ FairRing


\* ---------------------------------------------------------------- C35
\* StateManager has put the EmergencyStop mode on SafetyController's queue
StopAnnounced ==
    \E i \in DOMAIN safety_published : safety_published[i] = "EmergencyStop"

\* the latch is set and HardwareInterface has received the stop command
StopExecuted ==
    /\ emergency_stop
    /\ \E i \in DOMAIN hw_received : own_stop(hw_received[i])

\* C35: once StateManager has announced EmergencyStop, SafetyController
\* eventually sets its latch and HardwareInterface eventually receives the
\* EmergencyStop command, whatever else arrives; and a command of Behaviour
\* is forwarded only while SafetyController has not yet handled an
\* EmergencyStop mode message.
C35_StopReachesHardware ==
    /\ StopAnnounced ~> StopExecuted
    /\ [][(Takes("behavior_safety") /\ hw_sent' # hw_sent)
             => \A i \in DOMAIN states_received : states_received[i] # "EmergencyStop"]_vars

\* The EmergencyStop mode waits in SafetyController's queue while the four
\* tasks of the ring are each suspended on a send to the next one's full
\* queue: SafetyController never takes the mode.
C35_Witness ==
    /\ StopAnnounced
    /\ ~emergency_stop
    /\ Head(chan["state_safety"]) = "EmergencyStop"
    /\ \A m \in RingTasks : Suspended(m) /\ WaitsFor(m) \in RingTasks
    /\ Head(out["SafetyController"]).ch = "behavior_hw"

=============================================================================
